---- MODULE Spec2Model ----
(***************************************************************************)
(* Model of the architecture reconstruction of CARET_analyze:              *)
(*   - the generic graph engine (Graph.add_edge / Graph.search_paths),     *)
(*   - the inter-node search (NodePathSearcher),                           *)
(*   - the per-node path table (NodePathsStruct.create_from_reader),       *)
(*   - the communication pairing (CommunicationsStruct).                   *)
(* Python's None is the string "None"; an exception that leaves a call is  *)
(* recorded by its class name in `raised`.                                 *)
(***************************************************************************)
EXTENDS Integers, Sequences, FiniteSets, TLC

VARIABLES
    pc,               \* position of the running operation
    raised,           \* class name of the exception that left the operation, or "none"
    node_paths_in,    \* NodePathSearcher: node paths of self._nodes, flattened
    comms,            \* NodePathSearcher._comms
    node_path_dict,   \* NodePathSearcher._node_path_dict: key -> index in node_paths_in
    comm_dict,        \* NodePathSearcher._comm_dict: key -> index in comms
    graph,            \* Graph: its edges in insertion order
    filters,          \* NodePathSearcher.__init__: the arguments node_filter, communication_filter
    start,            \* search: start graph node
    goal,             \* search: goal graph node
    max_node_depth,   \* search: the argument max_node_depth
    max_search_depth, \* search: the depth handed to Graph.search_paths
    stack,            \* search_paths: depth-first stack of [node, idx]
    path,             \* search_paths: edges of the path being explored
    graph_paths,      \* search_paths: paths found so far / returned
    paths,            \* search: the returned list of resolved paths
    nodes,            \* NodesStruct: the loaded nodes, in insertion order
    tf_tree,          \* the TransformTreeValue every frame buffer holds
    cur,              \* NodePathsStruct.create_from_reader: index of its node, or 0
    node_paths,       \* NodePathsStruct._data of that node
    communications,   \* CommunicationsStruct._data
    reader_nodes,     \* the sequence the wrapped reader's get_nodes returns
    ignore_topics,    \* TopicIgnoredReader._ignore_topics
    ignore_callback_ids, \* TopicIgnoredReader._ignore_callback_ids
    result,           \* the last call on the TopicIgnoredReader and what it returned
    struct_obj,       \* a Struct object (with the Structs it holds)
    to_values,        \* what the calls of to_value on it returned or raised, in order
    mutation,         \* the mutator called on it, if any, and what it did
    tf_transforms,    \* the transforms handed to create_from_transforms
    tf_built,         \* what create_from_transforms returned or raised
    tf_query,         \* the last call of is_in on the tree and what it returned
    path_values,      \* the PathValues the reader's get_paths returns
    paths_loaded      \* PathsStruct.__init__: its outcome, _data and warnings

vars == <<pc, raised, node_paths_in, comms, node_path_dict, comm_dict, graph, filters,
          start, goal, max_node_depth, max_search_depth, stack, path,
          graph_paths, paths, nodes, tf_tree, cur, node_paths, communications,
          reader_nodes, ignore_topics, ignore_callback_ids, result,
          struct_obj, to_values, mutation, tf_transforms, tf_built, tf_query,
          path_values, paths_loaded>>

DfsVars == <<stack, path, graph_paths>>

SearcherVars == <<node_paths_in, comms, node_path_dict, comm_dict, graph, filters>>

QueryVars == <<start, goal, max_node_depth, max_search_depth>>

LoadVars == <<nodes, tf_tree, cur, node_paths, communications>>

ReaderVars == <<reader_nodes, ignore_topics, ignore_callback_ids, result>>

StructVars == <<struct_obj, to_values, mutation>>

TreeVars == <<tf_transforms, tf_built, tf_query>>

PathVars == <<path_values, paths_loaded>>

\* the variables of the operations that the search and the loading leave alone
OtherVars == <<ReaderVars, StructVars, TreeVars, PathVars>>

\* no call on a TopicIgnoredReader has returned
NoResult ==
    [method |-> "none", node |-> [node_name |-> "None", node_id |-> "None"],
     exc |-> "none", warned |-> FALSE, value |-> <<>>]

\* no TopicIgnoredReader exists
ReaderIdle ==
    /\ reader_nodes = <<>>
    /\ ignore_topics = <<>>
    /\ ignore_callback_ids = {}
    /\ result = NoResult

\* no Struct is under test
NoStruct == [kind |-> "none"]

\* no mutator has been called
NoMutation ==
    [op |-> "none", exc |-> "none", calls |-> 0, before |-> NoStruct, after |-> NoStruct]

StructIdle ==
    /\ struct_obj = NoStruct
    /\ to_values = <<>>
    /\ mutation = NoMutation

\* no tree has been built or asked
NoQuery ==
    [lookup |-> [frame_id |-> "", child_frame_id |-> ""],
     target |-> [frame_id |-> "", child_frame_id |-> ""], ret |-> FALSE]

NotBuilt == [exc |-> "none", built |-> FALSE, value |-> <<>>]

TreeIdle ==
    /\ tf_transforms = <<>>
    /\ tf_built = NotBuilt
    /\ tf_query = NoQuery

\* no PathsStruct exists
NotLoaded == [exc |-> "none", data |-> <<>>, warned |-> <<>>]

PathIdle ==
    /\ path_values = <<>>
    /\ paths_loaded = NotLoaded

OtherIdle == ReaderIdle /\ StructIdle /\ TreeIdle /\ PathIdle

None == "None"

(***************************************************************************)
(* Bounds of the model.                                                    *)
(***************************************************************************)
MaxComms == 3

NodeNames == {"A", "B", "C"}
SearchNames == NodeNames \cup {"X"}
TopicNames == {"t1", "t2"}

Comm(o, i, t) == [output_node_name |-> o, input_node_name |-> i, topic_name |-> t]

CommUniverse ==
    { Comm("A", "A", "t1"), Comm("A", "B", "t1"), Comm("A", "B", "t2"),
      Comm("B", "A", "t1"), Comm("B", "C", "t1"), Comm("A", "C", "t1") }

SeqsUpTo(S, n) == UNION { [1..k -> S] : k \in 0..n }

CommLists == SeqsUpTo(CommUniverse, MaxComms)

NodePath(i, o, n) == [input_topic_name |-> i, output_topic_name |-> o, node_name |-> n]

NodePathLists ==
    { <<>>,
      << NodePath("t1", "t1", "A") >>,
      << NodePath("t1", "t1", "A"), NodePath("t1", "t1", "A") >> }

\* Optional[int]: <<>> is None, <<n>> is the integer n
DepthArgs == {<<>>, <<0>>, <<1>>}

MaxNodes == 2

\* node names by position in NodesStruct (a dict keyed by node_id: names differ)
LoadNodeNames == <<"Producer", "Consumer", "Relay">>

Tf(f, c) == [frame_id |-> f, child_frame_id |-> c]

NoTf == Tf(None, None)

Tree(frame, child_trees) == [root_tf |-> frame, childs |-> child_trees]

NoTree == Tree(NoTf, <<>>)

\* the tree of the frames map -> odom -> base_link -> lidar, and a one-frame tree
TfTrees ==
    { Tree(Tf("base_link", "lidar"),
           << Tree(Tf("odom", "base_link"), << Tree(Tf("map", "odom"), <<>>) >>) >>),
      Tree(Tf("map", "odom"), <<>>) }

Absence == [is_none |-> TRUE, data |-> <<>>]

Present(d) == [is_none |-> FALSE, data |-> d]

Ctx(type, pub, sub, br, lookup) ==
    [context_type |-> type, publisher_topic_name |-> pub,
     subscription_topic_name |-> sub, broadcast |-> br, lookup |-> lookup]

NodeConfig(subs, pubs, bufs, brs, cbs, vps, ctxs) ==
    [subscriptions |-> subs, publishers |-> pubs, tf_buffer |-> bufs,
     tf_broadcaster |-> brs, callbacks |-> cbs, variable_passings |-> vps,
     message_contexts |-> ctxs]

NodeConfigs ==
    { NodeConfig(<<>>, <<"/chatter">>, Absence, Absence, <<>>, Present(<<>>), <<>>),
      NodeConfig(<<"/chatter">>, <<>>, Absence, Absence, <<"cb0">>, Present(<<>>), <<>>),
      NodeConfig(<<"/chatter">>, <<"/chatter">>, Absence, Absence, <<"cb0", "cb1">>,
                 Present(<< [write |-> "cb0", read |-> "cb1"] >>), <<>>),
      NodeConfig(<<"/in">>, <<"/out", "/x/info/pub">>, Absence, Absence, <<"cb0">>,
                 Present(<<>>),
                 << Ctx("use_latest_message", "/out", "/in", NoTf, NoTf) >>),
      NodeConfig(<<"/tf">>, <<>>, Present(<< Tf("map", "base_link") >>),
                 Present(<< Tf("odom", "base_link") >>), <<>>, Present(<<>>),
                 << Ctx("UNDEFINED", "/tf", "/tf", NoTf, NoTf),
                    Ctx("use_latest_message", "/tf", "/tf",
                        Tf("odom", "base_link"), Tf("map", "base_link")) >>),
      NodeConfig(<<>>, <<"/chatter">>, Absence,
                 Present(<< Tf("map", "odom"), Tf("base_link", "lidar") >>),
                 <<"cb0">>, Absence, <<>>),
      NodeConfig(<<"/chatter", "/chatter">>, <<"/out">>, Absence, Absence, <<>>,
                 Present(<<>>),
                 << Ctx("use_latest_message", "/missing", "/chatter", NoTf, NoTf),
                    Ctx("callback_chain", "/out", "/chatter", NoTf, NoTf) >>),
      NodeConfig(<<"/in">>, <<"/out">>, Absence, Absence, <<>>, Present(<<>>),
                 << Ctx("use_latest_message", "/out", "/missing", NoTf, NoTf) >>),
      NodeConfig(<<>>, <<>>, Present(<< Tf("map", "base_link") >>),
                 Present(<< Tf("odom", "base_link") >>), <<>>, Present(<<>>),
                 << Ctx("use_latest_message", "/tf", "/tf",
                        Tf("map", "odom"), Tf("map", "base_link")),
                    Ctx("use_latest_message", "/tf", "/tf",
                        Tf("odom", "base_link"), Tf("map", "base_link")) >>) }

\* topic names that end in '/info/pub'
InfoPubTopics == {"/x/info/pub"}

Named(name, c) ==
    [node_name |-> name, subscriptions |-> c.subscriptions, publishers |-> c.publishers,
     tf_buffer |-> c.tf_buffer, tf_broadcaster |-> c.tf_broadcaster,
     callbacks |-> c.callbacks, variable_passings |-> c.variable_passings,
     message_contexts |-> c.message_contexts]

NodeLists ==
    { [i \in DOMAIN f |-> Named(LoadNodeNames[i], f[i])] :
        f \in UNION { [1..k -> NodeConfigs] : k \in 1..MaxNodes } }

(***************************************************************************)
(* Python objects: the attributes a class defines.  Reading any other      *)
(* attribute raises AttributeError.                                        *)
(***************************************************************************)
CommunicationWrapperAttrs ==
    {"input_node_name", "output_node_name", "topic_name", "get_key"}

NodePathWrapperAttrs ==
    {"output_topic_name", "input_topic_name", "node_name", "get_key"}

NodePathSearcherAttrs ==
    {"_node_path_key", "search", "_find_node", "_get_publisher", "_get_subscription",
     "_to_path", "_find_comm", "_find_node_path"}

\* CommunicationWrapper.get_key
CommKey(c) == <<c.output_node_name, c.input_node_name, c.topic_name>>

\* NodePathWrapper.get_key
NodePathKey(p) == <<p.input_topic_name, p.output_topic_name, p.node_name>>

(***************************************************************************)
(* Generic graph engine.                                                   *)
(***************************************************************************)
Edge(f, t, l) == [node_from |-> f, node_to |-> t, label |-> l]

\* Graph.add_edge
add_edge(g, f, t, l) == Append(g, Edge(f, t, l))

GraphNodes(g) == { g[i].node_from : i \in DOMAIN g } \cup { g[i].node_to : i \in DOMAIN g }

EdgesFrom(g, u) == SelectSeq(g, LAMBDA e : e.node_from = u)

\* the path-local visited set: the nodes of the path being explored
Visited(stk) == { stk[i].node : i \in DOMAIN stk }

Top(stk) == stk[Len(stk)]

Bump(stk) == [stk EXCEPT ![Len(stk)].idx = @ + 1]

Front(s) == SubSeq(s, 1, Len(s) - 1)

(***************************************************************************)
(* NodePathSearcher.__init__                                               *)
(***************************************************************************)
\* the attribute reads of a logger.warning f-string: the first attribute the
\* object does not define raises AttributeError
ReadAttrs(attrs, defined) ==
    IF \A i \in DOMAIN attrs : attrs[i] \in defined THEN "none" ELSE "AttributeError"

\* 'duplicated node_path found. skip adding.' (node_path is a NodePathWrapper)
DuplicatedNodePathWarning ==
    ReadAttrs(<<"node_name", "subscribe_topic_name", "publish_topic_name">>,
              NodePathWrapperAttrs)

\* 'duplicated communication found. skip adding.' (comm is a CommunicationWrapper)
DuplicatedCommWarning ==
    ReadAttrs(<<"topic_name", "publish_node_name", "subscribe_node_name">>,
              CommunicationWrapperAttrs)

\* for node_path in node_paths: ... self._node_path_dict[key] = node_path
RECURSIVE BuildNodePathDict(_, _, _)
BuildNodePathDict(nps, i, dict) ==
    IF i > Len(nps) THEN [exc |-> "none", dict |-> dict]
    ELSE LET key == NodePathKey(nps[i]) IN
         IF key \notin DOMAIN dict
         THEN BuildNodePathDict(nps, i + 1, dict @@ (key :> i))
         ELSE IF DuplicatedNodePathWarning # "none"
              THEN [exc |-> DuplicatedNodePathWarning, dict |-> dict]
              ELSE BuildNodePathDict(nps, i + 1, dict)

\* a filter argument: None, or a predicate given by the set of names it accepts
NoFilter == [is_none |-> TRUE, accepts |-> {}]

Accepting(names) == [is_none |-> FALSE, accepts |-> names]

\* node_filter=None, communication_filter=None
NoFilters == [node_filter |-> NoFilter, communication_filter |-> NoFilter]

\* the filter arguments of the constructor: None, or a predicate on the names
NodeFilters == {NoFilter, Accepting({"A", "B"})}

CommunicationFilters == {NoFilter, Accepting({"t1"})}

\* `filter is not None and not filter(name)`
Rejects(filter, name) == ~filter.is_none /\ name \notin filter.accepts

\* the three `continue` guards on communication_filter and node_filter
\* (a mutant: communications of a node with itself are skipped as well)
SkipCommSelfLoop(c, node_filter, communication_filter) ==
    \/ Rejects(communication_filter, c.topic_name)
    \/ Rejects(node_filter, c.output_node_name)
    \/ Rejects(node_filter, c.input_node_name)
    \/ c.output_node_name = c.input_node_name

SkipComm(c, node_filter, communication_filter) ==
    \/ Rejects(communication_filter, c.topic_name)
    \/ Rejects(node_filter, c.output_node_name)
    \/ Rejects(node_filter, c.input_node_name)

\* (a mutant: the edge runs from the subscribing node to the publishing node)
CommEdgeReversed(c) == Edge(c.input_node_name, c.output_node_name, c.topic_name)

\* the edge self._graph.add_edge receives for a communication
CommEdge(c) == Edge(c.output_node_name, c.input_node_name, c.topic_name)

\* for comm in self._comms: ... self._comm_dict[key] = comm; self._graph.add_edge(...)
RECURSIVE BuildCommDict(_, _, _, _, _, _)
BuildCommDict(cs, i, dict, g, node_filter, communication_filter) ==
    IF i > Len(cs) THEN [exc |-> "none", dict |-> dict, graph |-> g]
    ELSE LET c == cs[i]
             key == CommKey(c)
             e == CommEdge(c)
         IN IF SkipComm(c, node_filter, communication_filter)
            THEN BuildCommDict(cs, i + 1, dict, g, node_filter, communication_filter)
            ELSE IF key \notin DOMAIN dict
            THEN BuildCommDict(cs, i + 1, dict @@ (key :> i),
                               add_edge(g, e.node_from, e.node_to, e.label),
                               node_filter, communication_filter)
            ELSE IF DuplicatedCommWarning # "none"
            THEN [exc |-> DuplicatedCommWarning, dict |-> dict, graph |-> g]
            ELSE BuildCommDict(cs, i + 1, dict, g, node_filter, communication_filter)

NodePathSearcher_init(nps, cs, node_filter, communication_filter) ==
    /\ pc = "new"
    /\ LET np == BuildNodePathDict(nps, 1, <<>>)
           cm == BuildCommDict(cs, 1, <<>>, <<>>, node_filter, communication_filter)
           exc == IF np.exc # "none" THEN np.exc ELSE cm.exc
       IN IF exc # "none"
          THEN \* self._nodes and self._comms are set before the loops; the
               \* tables hold what the loops added before the exception
               /\ pc' = "raised"
               /\ raised' = exc
               /\ node_paths_in' = nps
               /\ comms' = cs
               /\ node_path_dict' = np.dict
               /\ comm_dict' = IF np.exc # "none" THEN <<>> ELSE cm.dict
               /\ graph' = IF np.exc # "none" THEN <<>> ELSE cm.graph
               /\ filters' = [node_filter |-> node_filter,
                              communication_filter |-> communication_filter]
          ELSE /\ pc' = "ready"
               /\ node_paths_in' = nps
               /\ comms' = cs
               /\ node_path_dict' = np.dict
               /\ comm_dict' = cm.dict
               /\ graph' = cm.graph
               /\ filters' = [node_filter |-> node_filter,
                              communication_filter |-> communication_filter]
               /\ UNCHANGED raised
    /\ UNCHANGED <<start, goal, max_node_depth, max_search_depth, stack, path,
                   graph_paths, paths>>
    /\ UNCHANGED LoadVars
    /\ UNCHANGED OtherVars

(***************************************************************************)
(* NodePathSearcher._to_path and its lookups                               *)
(***************************************************************************)
NodePathChild(i) == [kind |-> "node_path", idx |-> i]

CommChild(i) == [kind |-> "comm", idx |-> i]

Ok(v) == [exc |-> "none", value |-> v]

Raise(e) == [exc |-> e, value |-> None]

\* a call of self.<name>(...) on the searcher
HasMethod(name) == name \in NodePathSearcherAttrs

\* _find_node_path(self, sub_topic_name, pub_topic_name, node_name), called with
\* the positional arguments args
_find_node_path(args) ==
    IF Len(args) # 3 THEN Raise("TypeError")
    ELSE LET key == <<args[1], args[2], args[3]>> IN
         IF key \notin DOMAIN node_path_dict THEN Raise("ItemNotFoundError")
         ELSE Ok(NodePathChild(node_path_dict[key]))

\* _find_comm(self, node_from, node_to, topic_name): key = self._comm_key(...)
_find_comm(node_from, node_to, topic_name) ==
    IF ~HasMethod("_comm_key") THEN Raise("AttributeError")
    ELSE LET key == <<node_from, node_to, topic_name>> IN
         IF key \notin DOMAIN comm_dict THEN Raise("ItemNotFoundError")
         ELSE Ok(CommChild(comm_dict[key]))

\* self._create_tail_dummy_node_path(self._nodes, tail_edge)
_create_tail_dummy_node_path(tail_edge) ==
    IF ~HasMethod("_create_tail_dummy_node_path") THEN Raise("AttributeError")
    ELSE Ok([kind |-> "dummy_node_path", idx |-> 0])

\* for edge_, edge in zip(edges[:-1], edges[1:]): comm, node appended to child
RECURSIVE ToPathInterior(_, _, _)
ToPathInterior(edges, i, child) ==
    IF i >= Len(edges) THEN Ok(child)
    ELSE LET edge_ == edges[i]
             edge == edges[i + 1]
             comm == _find_comm(edge_.node_from, edge_.node_to, edge_.label)
             node == _find_node_path(<<edge_.label, edge.label, edge_.node_to>>)
         IN IF comm.exc # "none" THEN Raise(comm.exc)
            ELSE IF node.exc # "none" THEN Raise(node.exc)
            ELSE ToPathInterior(edges, i + 1, child \o <<comm.value, node.value>>)

\* NodePathSearcher._to_path: the children of the PathStructValue, or the exception
_to_path(edges) ==
    IF Len(edges) = 0 THEN Raise("InvalidArgumentError")
    ELSE LET head_node_path == _find_node_path(<<edges[1].node_from>>) IN
    IF head_node_path.exc # "none" THEN Raise(head_node_path.exc)
    ELSE LET interior == ToPathInterior(edges, 1, <<head_node_path.value>>) IN
    IF interior.exc # "none" THEN Raise(interior.exc)
    ELSE LET tail_edge == edges[Len(edges)]
             comm == _find_comm(tail_edge.node_from, tail_edge.node_to, tail_edge.label)
         IN
    IF comm.exc # "none" THEN Raise(comm.exc)
    ELSE LET tail_node_path == _create_tail_dummy_node_path(tail_edge) IN
    IF tail_node_path.exc # "none" THEN Raise(tail_node_path.exc)
    ELSE Ok(interior.value \o <<comm.value, tail_node_path.value>>)

\* for graph_path in graph_paths: paths.append(self._to_path(graph_path))
RECURSIVE ResolveFrom(_, _, _)
ResolveFrom(gps, i, acc) ==
    IF i > Len(gps) THEN Ok(acc)
    ELSE LET p == _to_path(gps[i]) IN
         IF p.exc # "none" THEN Raise(p.exc)
         ELSE ResolveFrom(gps, i + 1, Append(acc, p.value))

\* (a mutant: an empty graph path is resolved when the graph search found none)
ResolveAllOrEmpty(gps) ==
    IF Len(gps) = 0 THEN ResolveFrom(<< <<>> >>, 1, <<>>) ELSE ResolveFrom(gps, 1, <<>>)

ResolveAll(gps) == ResolveFrom(gps, 1, <<>>)

(***************************************************************************)
(* NodePathSearcher.search, with Graph.search_paths run step by step       *)
(***************************************************************************)
\* max_search_depth = max_node_depth or 0
MaxSearchDepth(arg) == IF arg = <<>> THEN 0 ELSE arg[1]

\* (a mutant: a node already on the path is entered again)
IsVisitedNever(stk, v) == FALSE

\* the path-local visited test of the depth-first enumeration
IsVisited(stk, v) == v \in Visited(stk)

\* max_depth = 0 is unbounded; otherwise a path holds at most max_depth edges
DepthReached(p, max_depth) == max_depth # 0 /\ Len(p) >= max_depth

\* a name absent from the graph yields an empty result
Absent(g, s, t) == s \notin GraphNodes(g) \/ t \notin GraphNodes(g)

\* search(start_node_name, end_node_name, max_node_depth): entry and the call
\* of self._graph.search_paths
search(s, t, d) ==
    /\ pc = "ready"
    /\ start' = s
    /\ goal' = t
    /\ max_node_depth' = d
    /\ max_search_depth' = MaxSearchDepth(d)
    /\ IF Absent(graph, s, t)
       THEN /\ pc' = "found"
            /\ stack' = <<>>
       ELSE /\ pc' = "searching"
            /\ stack' = <<[node |-> s, idx |-> 1]>>
    /\ path' = <<>>
    /\ graph_paths' = <<>>
    /\ UNCHANGED <<raised, paths>>
    /\ UNCHANGED SearcherVars
    /\ UNCHANGED LoadVars
    /\ UNCHANGED OtherVars

\* the edge the depth-first enumeration looks at next
NextEdge == EdgesFrom(graph, Top(stack).node)[Top(stack).idx]

HasNextEdge == Top(stack).idx <= Len(EdgesFrom(graph, Top(stack).node))

\* the next edge reaches the goal: the path is recorded
DfsEmit ==
    /\ pc = "searching"
    /\ HasNextEdge
    /\ ~DepthReached(path, max_search_depth)
    /\ NextEdge.node_to = goal
    /\ graph_paths' = Append(graph_paths, Append(path, NextEdge))
    /\ stack' = Bump(stack)
    /\ UNCHANGED <<pc, raised, path, paths>>
    /\ UNCHANGED SearcherVars
    /\ UNCHANGED LoadVars
    /\ UNCHANGED OtherVars
    /\ UNCHANGED QueryVars

\* the next edge leads to a node not yet on the path: descend
DfsAdvance ==
    /\ pc = "searching"
    /\ HasNextEdge
    /\ ~DepthReached(path, max_search_depth)
    /\ NextEdge.node_to # goal
    /\ ~IsVisited(stack, NextEdge.node_to)
    /\ stack' = Append(Bump(stack), [node |-> NextEdge.node_to, idx |-> 1])
    /\ path' = Append(path, NextEdge)
    /\ UNCHANGED <<pc, raised, graph_paths, paths>>
    /\ UNCHANGED SearcherVars
    /\ UNCHANGED LoadVars
    /\ UNCHANGED OtherVars
    /\ UNCHANGED QueryVars

\* the next edge leads to a node of the path, or the depth bound is reached
DfsSkip ==
    /\ pc = "searching"
    /\ HasNextEdge
    /\ \/ DepthReached(path, max_search_depth)
       \/ /\ NextEdge.node_to # goal
          /\ IsVisited(stack, NextEdge.node_to)
    /\ stack' = Bump(stack)
    /\ UNCHANGED <<pc, raised, path, graph_paths, paths>>
    /\ UNCHANGED SearcherVars
    /\ UNCHANGED LoadVars
    /\ UNCHANGED OtherVars
    /\ UNCHANGED QueryVars

\* every edge of the current node is done: go back, or end the enumeration
DfsBacktrack ==
    /\ pc = "searching"
    /\ ~HasNextEdge
    /\ stack' = Front(stack)
    /\ path' = IF Len(path) > 0 THEN Front(path) ELSE path
    /\ pc' = IF Len(stack) = 1 THEN "found" ELSE "searching"
    /\ UNCHANGED <<raised, graph_paths, paths>>
    /\ UNCHANGED SearcherVars
    /\ UNCHANGED LoadVars
    /\ UNCHANGED OtherVars
    /\ UNCHANGED QueryVars

\* search: the loop over graph_paths and the return
search_return ==
    /\ pc = "found"
    /\ LET r == ResolveAll(graph_paths) IN
       IF r.exc # "none"
       THEN /\ pc' = "raised"
            /\ raised' = r.exc
            /\ UNCHANGED paths
       ELSE /\ pc' = "done"
            /\ paths' = r.value
            /\ UNCHANGED raised
    /\ UNCHANGED DfsVars
    /\ UNCHANGED SearcherVars
    /\ UNCHANGED LoadVars
    /\ UNCHANGED OtherVars
    /\ UNCHANGED QueryVars

Init ==
    /\ pc = "new"
    /\ raised = "none"
    /\ node_paths_in = <<>>
    /\ comms = <<>>
    /\ node_path_dict = <<>>
    /\ comm_dict = <<>>
    /\ graph = <<>>
    /\ filters = NoFilters
    /\ start = None
    /\ goal = None
    /\ max_node_depth = <<>>
    /\ max_search_depth = 0
    /\ stack = <<>>
    /\ path = <<>>
    /\ graph_paths = <<>>
    /\ paths = <<>>
    /\ nodes = <<>>
    /\ tf_tree = NoTree
    /\ cur = 0
    /\ node_paths = <<>>
    /\ communications = <<>>
    /\ OtherIdle

Construct ==
    \E nps \in NodePathLists, cs \in CommLists :
        NodePathSearcher_init(nps, cs, NoFilter, NoFilter)

\* the constructor called with filters
ConstructFiltered ==
    \E nps \in NodePathLists, cs \in CommLists :
        \E node_filter \in NodeFilters, communication_filter \in CommunicationFilters :
            NodePathSearcher_init(nps, cs, node_filter, communication_filter)

Search ==
    \E s \in SearchNames, t \in SearchNames, d \in DepthArgs : search(s, t, d)

Next ==
    \/ Construct
    \/ Search
    \/ DfsEmit
    \/ DfsAdvance
    \/ DfsSkip
    \/ DfsBacktrack
    \/ search_return

Spec == Init /\ [][Next]_vars

FairSpec == Spec /\ WF_vars(Next)

\* the searcher constructed with or without filters, and its searches
FilterNext ==
    \/ ConstructFiltered
    \/ Search
    \/ DfsEmit
    \/ DfsAdvance
    \/ DfsSkip
    \/ DfsBacktrack
    \/ search_return

FilterSpec == Init /\ [][FilterNext]_vars

(***************************************************************************)
(* Entity structs: the endpoints of a node.  An endpoint is an object; two *)
(* endpoints are equal only when they are the same object (kind, owner and *)
(* position in the owner's list).                                          *)
(***************************************************************************)
Ep(kind, node_name, idx, topic_name, transform) ==
    [kind |-> kind, node_name |-> node_name, idx |-> idx,
     topic_name |-> topic_name, transform |-> transform]

\* Python's None where an endpoint is expected
NoneEp == Ep("none", None, 0, None, NoTf)

\* (a mutant: subscriptions compare by value)
SubscriptionsByValue(node) ==
    [i \in DOMAIN node.subscriptions |->
        Ep("sub", node.node_name, 0, node.subscriptions[i], NoTf)]

\* SubscriptionsStruct.create_from_reader: one SubscriptionStruct per value
Subscriptions(node) ==
    [i \in DOMAIN node.subscriptions |->
        Ep("sub", node.node_name, i, node.subscriptions[i], NoTf)]

\* PublishersStruct.create_from_reader: one PublisherStruct per value, '/tf' skipped
Publishers(node) ==
    LET topics == SelectSeq(node.publishers, LAMBDA t : t # "/tf") IN
    [i \in DOMAIN topics |-> Ep("pub", node.node_name, i, topics[i], NoTf)]

\* TransformBufferStruct.__init__: one frame buffer per lookup transform
FrameBuffers(node) ==
    [i \in DOMAIN node.tf_buffer.data |->
        Ep("buf", node.node_name, i, "/tf", node.tf_buffer.data[i])]

\* TransformBroadcasterStruct.__init__: one frame broadcaster per transform
FrameBroadcasters(node) ==
    [i \in DOMAIN node.tf_broadcaster.data |->
        Ep("br", node.node_name, i, "/tf", node.tf_broadcaster.data[i])]

\* Util.filter_items; the predicate f is given as the set of items it accepts
filter_items(f, x) == SelectSeq(x, LAMBDA item : item \in f)

\* the items a sequence iterates over
Items(x) == { x[i] : i \in DOMAIN x }

EndsWithInfoPub(topic_name) == topic_name \in InfoPubTopics

\* NodeStruct.node_outputs
node_outputs(node) ==
    LET no_tf == filter_items({x \in Items(Publishers(node)) : x.topic_name # "/tf"},
                              Publishers(node))
        outputs == filter_items({x \in Items(no_tf) : ~EndsWithInfoPub(x.topic_name)},
                                no_tf)
    IN IF ~node.tf_broadcaster.is_none
       THEN outputs \o FrameBroadcasters(node)
       ELSE outputs

\* NodeStruct.node_inputs
node_inputs(node) ==
    IF ~node.tf_buffer.is_none
    THEN Subscriptions(node) \o FrameBuffers(node)
    ELSE Subscriptions(node)

(***************************************************************************)
(* TransformTreeValue.is_in and the is_pair predicates                     *)
(***************************************************************************)
RECURSIVE find_coord_local(_, _)
RECURSIVE FindInChilds(_, _, _)
\* the frames collected into s; s is empty exactly when the call returns False
find_coord_local(tree, target_tf) ==
    IF tree.root_tf.frame_id = target_tf THEN {tree.root_tf}
    ELSE LET s == FindInChilds(tree.childs, 1, target_tf) IN
         IF s # {} THEN s \cup {tree.root_tf} ELSE {}

\* for child in tree.childs: if find_coord_local(child): ... return True
FindInChilds(childs, i, target_tf) ==
    IF i > Len(childs) THEN {}
    ELSE LET s == find_coord_local(childs[i], target_tf) IN
         IF s # {} THEN s ELSE FindInChilds(childs, i + 1, target_tf)

_to_root(tree, target_tf) == find_coord_local(tree, target_tf)

\* (a mutant: the frames of both walks to the root, not the ones of only one)
is_in_union(tree, lookup_transform, target_transform) ==
    LET lookup_frame_ids == _to_root(tree, lookup_transform.frame_id)
        lookup_child_frme_ids == _to_root(tree, lookup_transform.child_frame_id)
    IN {target_transform} \subseteq (lookup_frame_ids \cup lookup_child_frme_ids)

is_in(tree, lookup_transform, target_transform) ==
    LET lookup_frame_ids == _to_root(tree, lookup_transform.frame_id)
        lookup_child_frme_ids == _to_root(tree, lookup_transform.child_frame_id)
        frames == (lookup_frame_ids \ lookup_child_frme_ids)
                      \cup (lookup_child_frme_ids \ lookup_frame_ids)
    IN {target_transform} \subseteq frames

\* (a mutant: a subscription pairs with every publisher)
SubscriptionStruct_is_pair_any(self, other) == other.kind = "pub"

SubscriptionStruct_is_pair(self, other) ==
    IF other.kind = "pub" THEN other.topic_name = self.topic_name ELSE FALSE

TransformFrameBufferStruct_is_pair(self, other) ==
    IF other.kind = "br" THEN is_in(tf_tree, self.transform, other.transform) ELSE FALSE

\* node_input.is_pair(node_output)
is_pair(node_input, node_output) ==
    IF node_input.kind = "sub" THEN SubscriptionStruct_is_pair(node_input, node_output)
    ELSE TransformFrameBufferStruct_is_pair(node_input, node_output)

PublisherStruct_is_pair(self, other) ==
    IF other.kind = "sub" THEN self.topic_name = other.topic_name ELSE FALSE

\* the branch calls other.is_pair(self) and drops its result: no return
TransformFrameBroadcasterStruct_is_pair(self, other) ==
    IF other.kind = "buf" /\ TransformFrameBufferStruct_is_pair(other, self)
    THEN FALSE
    ELSE FALSE

\* node_output.is_pair(node_input)
output_is_pair(node_output, node_input) ==
    IF node_output.kind = "pub" THEN PublisherStruct_is_pair(node_output, node_input)
    ELSE TransformFrameBroadcasterStruct_is_pair(node_output, node_input)

(***************************************************************************)
(* CommunicationsStruct.__init__                                           *)
(***************************************************************************)
\* CommunicationStruct.__init__(nodes, pub, sub, node_pub, node_sub)
CommunicationStruct(pub, sub, node_pub, node_sub) ==
    [kind |-> "comm", output |-> pub, input |-> sub,
     node_pub |-> node_pub.node_name, node_sub |-> node_sub.node_name]

\* TransformCommunicationStruct.__init__(broadcaster, buffer)
TransformCommunicationStruct(broadcaster, buffer) ==
    [kind |-> "tf_comm", output |-> broadcaster, input |-> buffer,
     node_pub |-> None, node_sub |-> None]

\* the body of the inner loop once is_pair holds: the value bound to comm
NewComm(node_input, node_output, node_recv, node_send) ==
    IF node_input.kind = "buf" /\ node_output.kind = "br"
    THEN Ok(TransformCommunicationStruct(node_output, node_input))
    ELSE IF node_input.kind = "sub" /\ node_output.kind = "pub"
    THEN Ok(CommunicationStruct(node_output, node_input, node_recv, node_send))
    ELSE Raise("UnboundLocalError")

\* for node_recv, node_send in product(nodes, nodes):
\*     for node_input, node_output in product(node_recv.node_inputs, node_send.node_outputs):
RECURSIVE CommLoop(_, _, _, _, _, _)
CommLoop(ns, r, s, i, o, data) ==
    IF r > Len(ns) THEN Ok(data)
    ELSE IF s > Len(ns) THEN CommLoop(ns, r + 1, 1, 1, 1, data)
    ELSE LET ins == node_inputs(ns[r])
             outs == node_outputs(ns[s])
         IN IF i > Len(ins) THEN CommLoop(ns, r, s + 1, 1, 1, data)
            ELSE IF o > Len(outs) THEN CommLoop(ns, r, s, i + 1, 1, data)
            ELSE IF ~is_pair(ins[i], outs[o]) THEN CommLoop(ns, r, s, i, o + 1, data)
            ELSE LET comm == NewComm(ins[i], outs[o], ns[r], ns[s]) IN
                 IF comm.exc # "none"
                 THEN IF Len(data) = 0 THEN Raise(comm.exc)
                      ELSE CommLoop(ns, r, s, i, o + 1, Append(data, data[Len(data)]))
                 ELSE CommLoop(ns, r, s, i, o + 1, Append(data, comm.value))

CommunicationsStruct_init ==
    /\ pc = "load"
    /\ LET r == CommLoop(nodes, 1, 1, 1, 1, <<>>) IN
       IF r.exc # "none"
       THEN /\ pc' = "raised"
            /\ raised' = r.exc
            /\ UNCHANGED communications
       ELSE /\ pc' = "comms_built"
            /\ communications' = r.value
            /\ UNCHANGED raised
    /\ UNCHANGED <<nodes, tf_tree, cur, node_paths>>
    /\ UNCHANGED SearcherVars
    /\ UNCHANGED QueryVars
    /\ UNCHANGED DfsVars
    /\ UNCHANGED OtherVars
    /\ UNCHANGED paths

(***************************************************************************)
(* Graph.search_paths as a function: the paths the step-by-step            *)
(* enumeration above records, in the same order                            *)
(***************************************************************************)
RECURSIVE DfsEdges(_, _, _, _, _, _, _)
DfsEdges(g, t, max_depth, stk, es, i, p) ==
    IF i > Len(es) THEN <<>>
    ELSE LET e == es[i]
             here == IF DepthReached(p, max_depth) THEN <<>>
                     ELSE IF e.node_to = t THEN << Append(p, e) >>
                     ELSE IF IsVisited(stk, e.node_to) THEN <<>>
                     ELSE DfsEdges(g, t, max_depth,
                                   Append(stk, [node |-> e.node_to, idx |-> 1]),
                                   EdgesFrom(g, e.node_to), 1, Append(p, e))
         IN here \o DfsEdges(g, t, max_depth, stk, es, i + 1, p)

search_paths(g, s, t, max_depth) ==
    IF Absent(g, s, t) THEN <<>>
    ELSE DfsEdges(g, t, max_depth, <<[node |-> s, idx |-> 1]>>, EdgesFrom(g, s), 1, <<>>)

(***************************************************************************)
(* NodePathsStruct: the path table of one node                             *)
(***************************************************************************)
NodePathStruct(node_name, node_input, node_output) ==
    [node_name |-> node_name, node_input |-> node_input, node_output |-> node_output,
     child |-> None, message_context |-> None]

NodePathsStruct_create(data, node_name, node_input, node_output) ==
    Append(data, NodePathStruct(node_name, node_input, node_output))

\* NodePathsStruct.get: the index of the first entry with the key
NodePathsStruct_get(data, node_name, node_input, node_output) ==
    LET hits == { k \in DOMAIN data :
                    /\ data[k].node_input = node_input
                    /\ data[k].node_output = node_output
                    /\ data[k].node_name = node_name }
    IN IF hits = {} THEN Raise("ItemNotFoundError")
       ELSE Ok(CHOOSE k \in hits : \A j \in hits : k <= j)

\* a call self._paths.get(*args): get takes node_name, node_input and node_output
NodePathsStruct_get_call(data, args) ==
    IF Len(args) # 3 THEN Raise("TypeError")
    ELSE NodePathsStruct_get(data, args[1], args[2], args[3])

\* for node_input in node.node_inputs: node_paths.create(node.node_name, node_input, None)
RECURSIVE CreateInputs(_, _, _, _)
CreateInputs(data, node, ins, i) ==
    IF i > Len(ins) THEN data
    ELSE CreateInputs(NodePathsStruct_create(data, node.node_name, ins[i], NoneEp),
                      node, ins, i + 1)

\* for node_output in node.node_outputs: node_paths.create(node.node_name, None, node_output)
RECURSIVE CreateOutputs(_, _, _, _)
CreateOutputs(data, node, outs, o) ==
    IF o > Len(outs) THEN data
    ELSE CreateOutputs(NodePathsStruct_create(data, node.node_name, NoneEp, outs[o]),
                       node, outs, o + 1)

\* for node_input, node_output in product(node.node_inputs, node.node_outputs): ...
RECURSIVE CreatePairs(_, _, _, _, _, _)
CreatePairs(data, node, ins, outs, i, o) ==
    IF i > Len(ins) THEN data
    ELSE IF o > Len(outs) THEN CreatePairs(data, node, ins, outs, i + 1, 1)
    ELSE CreatePairs(NodePathsStruct_create(data, node.node_name, ins[i], outs[o]),
                     node, ins, outs, i, o + 1)

\* (a mutant: the loop over the (input, output) pairs is left out)
PopulateWithoutPairs(node) ==
    CreateOutputs(CreateInputs(<<>>, node, node_inputs(node), 1),
                  node, node_outputs(node), 1)

\* NodePathsStruct.create_from_reader up to the callback-graph search
Populate(node) ==
    CreatePairs(CreateOutputs(CreateInputs(<<>>, node, node_inputs(node), 1),
                              node, node_outputs(node), 1),
                node, node_inputs(node), node_outputs(node), 1, 1)

NodePathsStruct_populate(n) ==
    /\ pc = "load"
    /\ cur' = n
    /\ node_paths' = Populate(nodes[n])
    /\ pc' = "populated"
    /\ UNCHANGED <<raised, nodes, tf_tree, communications, paths>>
    /\ UNCHANGED SearcherVars
    /\ UNCHANGED QueryVars
    /\ UNCHANGED DfsVars
    /\ UNCHANGED OtherVars

(***************************************************************************)
(* CallbackPathSearch: the callback graph of the node and its searches     *)
(***************************************************************************)
\* Util.find_one
find_one(condition, items) ==
    LET filtered == filter_items(condition, items) IN
    IF Len(filtered) = 0 THEN Raise("ItemNotFoundError")
    ELSE IF Len(filtered) >= 2 THEN Raise("MultipleItemFoundError")
    ELSE Ok(filtered[1])

VariablePassingStructAttrs == {"node_name", "callback_write", "callback_read", "to_value"}

NodeStructAttrs ==
    {"node_name", "node_id", "publishers", "subscriptions", "timers", "node_paths",
     "callback_groups", "callbacks", "variable_passings", "node_inputs", "node_outputs",
     "tf_buffer", "tf_broadcaster", "get_publisher", "get_timer", "to_value"}

\* f'{callback_name}@{read_or_write}'
_to_node_point_name(callback_name, read_or_write) == <<callback_name, read_or_write>>

\* for callback in callbacks: self._graph.add_edge(GraphNode(read_name), GraphNode(write_name))
RECURSIVE CallbackEdges(_, _, _)
CallbackEdges(callbacks, i, g) ==
    IF i > Len(callbacks) THEN g
    ELSE LET write_name == _to_node_point_name(callbacks[i], "write")
             read_name == _to_node_point_name(callbacks[i], "read")
         IN CallbackEdges(callbacks, i + 1, add_edge(g, read_name, write_name, write_name))

\* for var_pass in var_passes: self._graph.add_edge(GraphNode(write_name), GraphNode(read_name))
RECURSIVE VariablePassingEdges(_, _, _)
VariablePassingEdges(var_passes, i, g) ==
    IF i > Len(var_passes) THEN g
    ELSE LET write_name == _to_node_point_name(var_passes[i].write, "write")
             read_name == _to_node_point_name(var_passes[i].read, "read")
         IN VariablePassingEdges(var_passes, i + 1,
                                 add_edge(g, write_name, read_name, read_name))

\* CallbackPathSearcher.__init__: the searcher, or the exception
CallbackPathSearcher_init(node) ==
    IF node.variable_passings.is_none
    THEN [exc |-> "none", has_graph |-> FALSE, graph |-> <<>>]
    ELSE LET g == CallbackEdges(node.callbacks, 1, <<>>) IN
         IF Len(node.variable_passings.data) > 0
            /\ ReadAttrs(<<"callback_name_read">>, VariablePassingStructAttrs) # "none"
         THEN [exc |-> "AttributeError", has_graph |-> TRUE, graph |-> g]
         ELSE [exc |-> "none", has_graph |-> TRUE,
               graph |-> VariablePassingEdges(node.variable_passings.data, 1, g)]

\* CallbackStruct.node_input: the property body is `pass`
CallbackStruct_node_input == NoneEp

\* CallbackStruct.node_outputs: the property body is `pass`
CallbackStruct_node_outputs == Absence

\* point_name.split('@')[0]
_point_name_to_callback_name(point_name) == point_name[1]

\* point_name.split('@')[1]
_point_name_to_read_write_name(point_name) == point_name[2]

\* what _find_cb returns for the result r of find_one
FoundCallback(r) ==
    IF r.exc # "none" THEN r
    ELSE Ok([kind |-> "callback", callback_name |-> r.value])

\* _find_cb: Util.find_one over self._node.callbacks by callback_name
_find_cb(node, graph_node_from, graph_node_to) ==
    FoundCallback(find_one({_point_name_to_callback_name(graph_node_from)},
                           node.callbacks))

\* what _find_varpass returns for the result r of find_one
FoundVariablePassing(r) ==
    IF r.exc = "ItemNotFoundError" THEN Raise("ItemNotFoundError")
    ELSE IF r.exc # "none" THEN r
    ELSE Ok([kind |-> "variable_passing", callback_name_write |-> r.value.write,
             callback_name_read |-> r.value.read])

\* the variable passings is_target accepts
IsTarget(var_passes, read_cb_name, write_cb_name) ==
    find_one({vp \in Items(var_passes) :
                 vp.read = read_cb_name /\ vp.write = write_cb_name}, var_passes)

\* self._node.variable_passings as a list
VarPassList(node) ==
    IF node.variable_passings.is_none THEN <<>> ELSE node.variable_passings.data

\* _find_varpass: is_target reads var_pass.callback_name_read and
\* var_pass.callback_name_write of each variable passing
_find_varpass(node, graph_node_from, graph_node_to) ==
    IF Len(VarPassList(node)) > 0
       /\ ReadAttrs(<<"callback_name_read", "callback_name_write">>,
                    VariablePassingStructAttrs) # "none"
    THEN Raise("AttributeError")
    ELSE FoundVariablePassing(IsTarget(VarPassList(node),
                                       _point_name_to_callback_name(graph_node_to),
                                       _point_name_to_callback_name(graph_node_from)))

\* _find_cb_or_varpass: the kind of the edge decides the lookup
_find_cb_or_varpass(node, graph_node_from, graph_node_to) ==
    IF \/ _point_name_to_read_write_name(graph_node_from) = "write"
       \/ _point_name_to_read_write_name(graph_node_to) = "read"
    THEN _find_varpass(node, graph_node_from, graph_node_to)
    ELSE IF \/ _point_name_to_read_write_name(graph_node_from) = "read"
            \/ _point_name_to_read_write_name(graph_node_to) = "write"
    THEN _find_cb(node, graph_node_from, graph_node_to)
    ELSE Raise("NameError")

\* for graph_node_from, graph_node_to in zip(names[:-1], names[1:]): child.append(...)
RECURSIVE ToPathChild(_, _, _, _)
RECURSIVE AppendChild(_, _, _, _, _)
ToPathChild(node, callbacks_graph_path, i, child) ==
    IF i > Len(callbacks_graph_path) THEN Ok(child)
    ELSE AppendChild(node, callbacks_graph_path, i, child,
                     _find_cb_or_varpass(node, callbacks_graph_path[i].node_from,
                                         callbacks_graph_path[i].node_to))

\* child.append(cb_or_varpass), or the exception of the lookup
AppendChild(node, callbacks_graph_path, i, child, cb_or_varpass) ==
    IF cb_or_varpass.exc # "none" THEN cb_or_varpass
    ELSE ToPathChild(node, callbacks_graph_path, i + 1,
                     Append(child, cb_or_varpass.value))

\* _to_path after the chain is built: the endpoint lookups
\* self._node.get_node_in / get_node_out and self._paths.get(node_in, node_out),
\* which passes two of the three arguments of NodePathsStruct.get
ToPathEndpoints(data, child, node_in_value, node_out_value) ==
    IF child.exc # "none" THEN Raise(child.exc)
    ELSE IF node_in_value # NoneEp /\ "get_node_in" \notin NodeStructAttrs
    THEN Raise("AttributeError")
    ELSE IF node_out_value # NoneEp /\ "get_node_out" \notin NodeStructAttrs
    THEN Raise("AttributeError")
    ELSE IF NodePathsStruct_get_call(data, <<NoneEp, NoneEp>>).exc # "none"
    THEN Raise(NodePathsStruct_get_call(data, <<NoneEp, NoneEp>>).exc)
    ELSE \* node_path.node_name = ...: the property has no setter
         Raise("AttributeError")

\* CallbackPathSearcher._to_path
CallbackPathSearcher_to_path(node, data, callbacks_graph_path, node_in_value, node_out_value) ==
    ToPathEndpoints(data, ToPathChild(node, callbacks_graph_path, 1, <<>>),
                    node_in_value, node_out_value)

\* for out_value in out_values: self._to_path(graph_path, in_value, out_value)
RECURSIVE ForOutValues(_, _, _, _, _, _)
ForOutValues(node, data, graph_path, in_value, out_values, o) ==
    IF o > Len(out_values) THEN Ok(data)
    ELSE LET r == CallbackPathSearcher_to_path(node, data, graph_path, in_value,
                                               out_values[o])
         IN IF r.exc # "none" THEN r
            ELSE ForOutValues(node, r.value, graph_path, in_value, out_values, o + 1)

\* for graph_path in graph_paths: ...
RECURSIVE ForGraphPaths(_, _, _, _)
ForGraphPaths(node, data, gps, k) ==
    IF k > Len(gps) THEN Ok(data)
    ELSE LET in_value == CallbackStruct_node_input
             out_values == IF CallbackStruct_node_outputs.is_none
                           THEN <<>>
                           ELSE CallbackStruct_node_outputs.data
             \* `out_values is None or out_values == ()`: out_values is a list here
             none_or_empty_tuple == FALSE
             first == IF none_or_empty_tuple
                      THEN CallbackPathSearcher_to_path(node, data, gps[k], in_value, NoneEp)
                      ELSE Ok(data)
         IN IF first.exc # "none" THEN first
            ELSE LET r == ForOutValues(node, first.value, gps[k], in_value, out_values, 1)
                 IN IF r.exc # "none" THEN r ELSE ForGraphPaths(node, r.value, gps, k + 1)

CallbackPathSearcher_search(node, searcher, data, start_callback, end_callback) ==
    IF ~searcher.has_graph THEN Raise("AttributeError")
    ELSE LET start_name == _to_node_point_name(start_callback, "read")
             end_name == _to_node_point_name(end_callback, "write")
         IN ForGraphPaths(node, data,
                          search_paths(searcher.graph, start_name, end_name, 0), 1)

\* for write_callback, read_callback in product(callbacks, callbacks): searcher.search(...)
RECURSIVE ForCallbackPairs(_, _, _, _, _)
ForCallbackPairs(node, searcher, data, callbacks, k) ==
    IF k > Len(callbacks) * Len(callbacks) THEN Ok(data)
    ELSE LET write_callback == callbacks[((k - 1) \div Len(callbacks)) + 1]
             read_callback == callbacks[((k - 1) % Len(callbacks)) + 1]
             r == CallbackPathSearcher_search(node, searcher, data, write_callback,
                                              read_callback)
         IN IF r.exc # "none" THEN r
            ELSE ForCallbackPairs(node, searcher, r.value, callbacks, k + 1)

CallbackPathSearch(node, data) ==
    LET searcher == CallbackPathSearcher_init(node) IN
    IF searcher.exc # "none" THEN Raise(searcher.exc)
    ELSE ForCallbackPairs(node, searcher, data, node.callbacks, 1)

CallbackPathSearch_step ==
    /\ pc = "populated"
    /\ LET r == CallbackPathSearch(nodes[cur], node_paths) IN
       IF r.exc # "none"
       THEN /\ pc' = "raised"
            /\ raised' = r.exc
            /\ UNCHANGED node_paths
       ELSE /\ pc' = "chained"
            /\ node_paths' = r.value
            /\ UNCHANGED raised
    /\ UNCHANGED <<nodes, tf_tree, cur, communications, paths>>
    /\ UNCHANGED SearcherVars
    /\ UNCHANGED QueryVars
    /\ UNCHANGED DfsVars
    /\ UNCHANGED OtherVars

(***************************************************************************)
(* MessageContexts.create_from_reader                                      *)
(***************************************************************************)
\* the exception classes derived from caret_analyze.exceptions.Error
ErrorClasses ==
    {"ItemNotFoundError", "MultipleItemFoundError", "InvalidArgumentError",
     "UnsupportedTypeError"}

MessageContextTypes ==
    {"use_latest_message", "callback_chain", "inherit_unique_stamp", "tilde"}

UNDEFINED_STR == "UNDEFINED"

\* the first item of a `for x in items: if cond(x): return x` loop, else `otherwise`
FirstMatch(condition, items, otherwise) ==
    LET filtered == filter_items(condition, items) IN
    IF Len(filtered) = 0 THEN otherwise ELSE Ok(filtered[1])

PublishersStruct_get(node, node_name, topic_name) ==
    find_one({pub \in Items(Publishers(node)) :
                 pub.topic_name = topic_name /\ pub.node_name = node_name},
             Publishers(node))

SubscriptionsStruct_get(node, node_name, topic_name) ==
    FirstMatch({sub \in Items(Subscriptions(node)) :
                   sub.node_name = node_name /\ sub.topic_name = topic_name},
               Subscriptions(node), Ok(NoneEp))

\* TransformBroadcasterStruct.get -> TransformFrameBroadcastersStruct.get
TransformBroadcasterStruct_get(node, transform) ==
    FirstMatch({br \in Items(FrameBroadcasters(node)) :
                   br.transform = transform /\ br.node_name = node.node_name},
               FrameBroadcasters(node), Raise("NotImplementedError"))

\* TransformBufferStruct.get -> TransformFrameBuffersStruct.get
TransformBufferStruct_get(node, transform) ==
    FirstMatch({buf \in Items(FrameBuffers(node)) :
                   buf.transform = transform /\ buf.node_name = node.node_name},
               FrameBuffers(node), Raise("NotImplementedError"))

MessageContext_create_instance(context_type_name) ==
    IF context_type_name \in MessageContextTypes THEN Ok(context_type_name)
    ELSE Raise("UnsupportedTypeError")

\* the body of the try block for one context_dict
AssignContext(node, data, context_dict) ==
    IF context_dict.context_type = UNDEFINED_STR THEN Ok(data)
    ELSE LET pub_topic_name == context_dict.publisher_topic_name
             sub_topic_name == context_dict.subscription_topic_name
             node_output ==
                 IF pub_topic_name = "/tf"
                 THEN IF node.tf_broadcaster.is_none THEN Raise("AssertionError")
                      ELSE TransformBroadcasterStruct_get(node, context_dict.broadcast)
                 ELSE PublishersStruct_get(node, node.node_name, pub_topic_name)
             node_input ==
                 IF sub_topic_name = "/tf"
                 THEN IF node.tf_buffer.is_none THEN Raise("AssertionError")
                      ELSE TransformBufferStruct_get(node, context_dict.lookup)
                 ELSE SubscriptionsStruct_get(node, node.node_name, sub_topic_name)
         IN IF node_output.exc # "none" THEN Raise(node_output.exc)
            ELSE IF node_input.exc # "none" THEN Raise(node_input.exc)
            ELSE LET node_path == NodePathsStruct_get(data, node.node_name,
                                                      node_input.value, node_output.value)
                 IN IF node_path.exc # "none" THEN Raise(node_path.exc)
                    \* node_in=node_input.to_value()
                    ELSE IF node_input.value = NoneEp THEN Raise("AttributeError")
                    ELSE LET mc == MessageContext_create_instance(context_dict.context_type)
                         IN IF mc.exc # "none" THEN Raise(mc.exc)
                            ELSE Ok([data EXCEPT ![node_path.value].message_context =
                                                     mc.value])

\* for context_dict in context_dicts: try: ... except Error as e: logger.warning(e)
RECURSIVE ForContextDicts(_, _, _, _)
ForContextDicts(node, data, context_dicts, k) ==
    IF k > Len(context_dicts) THEN Ok(data)
    ELSE LET r == AssignContext(node, data, context_dicts[k]) IN
         IF r.exc = "none" THEN ForContextDicts(node, r.value, context_dicts, k + 1)
         ELSE IF r.exc \in ErrorClasses
         THEN ForContextDicts(node, data, context_dicts, k + 1)
         ELSE r

\* the message-context step of NodePathsStruct.create_from_reader and its return
MessageContexts_create_from_reader ==
    /\ pc = "chained"
    /\ LET r == ForContextDicts(nodes[cur], node_paths, nodes[cur].message_contexts, 1) IN
       IF r.exc # "none"
       THEN /\ pc' = "raised"
            /\ raised' = r.exc
            /\ UNCHANGED node_paths
       ELSE /\ pc' = "returned"
            /\ node_paths' = r.value
            /\ UNCHANGED raised
    /\ UNCHANGED <<nodes, tf_tree, cur, communications, paths>>
    /\ UNCHANGED SearcherVars
    /\ UNCHANGED QueryVars
    /\ UNCHANGED DfsVars
    /\ UNCHANGED OtherVars

(***************************************************************************)
(* Loading an architecture: the nodes are given, the path table of one     *)
(* node or the communications of all nodes are built                       *)
(***************************************************************************)
LoadInit ==
    /\ pc = "load"
    /\ raised = "none"
    /\ node_paths_in = <<>>
    /\ comms = <<>>
    /\ node_path_dict = <<>>
    /\ comm_dict = <<>>
    /\ graph = <<>>
    /\ filters = NoFilters
    /\ start = None
    /\ goal = None
    /\ max_node_depth = <<>>
    /\ max_search_depth = 0
    /\ stack = <<>>
    /\ path = <<>>
    /\ graph_paths = <<>>
    /\ paths = <<>>
    /\ nodes \in NodeLists
    /\ tf_tree \in TfTrees
    /\ cur = 0
    /\ node_paths = <<>>
    /\ communications = <<>>
    /\ OtherIdle

CreateNodePaths == \E n \in DOMAIN nodes : NodePathsStruct_populate(n)

LoadNext ==
    \/ CommunicationsStruct_init
    \/ CreateNodePaths
    \/ CallbackPathSearch_step
    \/ MessageContexts_create_from_reader

LoadSpec == LoadInit /\ [][LoadNext]_vars

(***************************************************************************)
(* Properties of the graph search and of NodePathSearcher.search           *)
(***************************************************************************)
SearchCalled == start # None

SearchEnded == SearchCalled /\ pc \in {"done", "raised"}

GraphSearchEnded == SearchCalled /\ pc \in {"found", "done", "raised"}

\* the edge is the edge of a communication of the searcher, in its direction
FollowsCommunication(e) ==
    \E k \in DOMAIN comms :
        /\ comms[k].output_node_name = e.node_from
        /\ comms[k].input_node_name = e.node_to
        /\ comms[k].topic_name = e.label

\* p is a chain of consecutive edges from s to t that enters no node twice;
\* the goal is entered by the last edge only (s = t: the path is a cycle)
IsSimpleChain(p, s, t) ==
    /\ Len(p) >= 1
    /\ p[1].node_from = s
    /\ p[Len(p)].node_to = t
    /\ \A i \in 1..(Len(p) - 1) : p[i].node_to = p[i + 1].node_from
    /\ \A i \in 1..(Len(p) - 1) : p[i].node_to # t
    /\ \A i, j \in DOMAIN p : i # j => p[i].node_from # p[j].node_from

\* C1: every path search_paths(s, g) returns is a chain of consecutive edges
\* from s to g that contains no graph node twice (the start == goal cycle
\* closes on its start), and every edge is followed in the direction of its
\* communication, from the publishing node to the subscribing node.
C1_PathsAreDirectedSimpleChains ==
    \A k \in DOMAIN graph_paths :
        /\ IsSimpleChain(graph_paths[k], start, goal)
        /\ \A i \in DOMAIN graph_paths[k] : FollowsCommunication(graph_paths[k][i])

C1_Witness ==
    /\ pc = "found"
    /\ start # goal
    /\ Len(graph_paths) >= 2
    /\ \E k \in DOMAIN graph_paths : Len(graph_paths[k]) = 2

\* C2: when the start name or the goal name is not a node of the graph, the
\* graph search returns no path and search returns an empty list and raises
\* nothing.
C2_AbsentNameGivesEmptyResult ==
    (SearchCalled /\ Absent(graph, start, goal)) =>
        /\ pc \in {"found", "done"}
        /\ raised = "none"
        /\ graph_paths = <<>>
        /\ paths = <<>>

C2_Witness ==
    /\ pc = "done"
    /\ Len(graph) > 0
    /\ start \in GraphNodes(graph)
    /\ goal \notin GraphNodes(graph)

C2_WitnessEmptyGraph ==
    /\ pc = "done"
    /\ graph = <<>>
    /\ start = goal

\* C3: path enumeration terminates on every finite graph, cycles included,
\* for every start and goal and with max_depth = 0: the path being explored
\* never holds more nodes than the graph has, and a search that has begun
\* ends (it returns or raises).
C3_SearchTerminates ==
    /\ [](pc = "searching" => Len(stack) <= Cardinality(GraphNodes(graph)))
    /\ ((pc = "searching") ~> (pc \in {"done", "raised"}))

\* the unbounded search stands before an edge that closes a cycle
C3_Witness ==
    /\ pc = "searching"
    /\ max_search_depth = 0
    /\ HasNextEdge
    /\ NextEdge.node_to # goal
    /\ IsVisited(stack, NextEdge.node_to)

\* every simple directed path from s to t of the graph g
SimplePaths(g, s, t) ==
    { p \in UNION { [1..k -> { g[i] : i \in DOMAIN g }] : k \in 1..Len(g) } :
        IsSimpleChain(p, s, t) }

ReturnedExactlyOnce(gps, ps) ==
    /\ { gps[k] : k \in DOMAIN gps } = ps
    /\ \A i, j \in DOMAIN gps : i # j => gps[i] # gps[j]

\* the graph-engine half of C4: with max_depth = 0 every simple directed path
\* from start to goal is returned exactly once
UnboundedSearchIsComplete ==
    (GraphSearchEnded /\ max_search_depth = 0) =>
        ReturnedExactlyOnce(graph_paths, SimplePaths(graph, start, goal))

\* C4: with max_depth = 0 every simple directed path from start to goal is
\* returned exactly once; search called with max_node_depth omitted or None
\* passes 0 to search_paths and returns one result per such graph path.
C4_SearchReturnsOneResultPerPath ==
    /\ (SearchCalled /\ max_node_depth = <<>>) => max_search_depth = 0
    /\ (SearchEnded /\ max_search_depth = 0) =>
        /\ ReturnedExactlyOnce(graph_paths, SimplePaths(graph, start, goal))
        /\ pc = "done"
        /\ Len(paths) = Len(graph_paths)

\* C5: for a single node N with a communication N -> N on topic t and a node
\* path keyed (t, t, N), search(N, N) returns exactly one path, whose children
\* are (node path of N, the communication, node path of N).
C5_SingleNodeCycleIsResolved ==
    ( /\ SearchEnded
      /\ comms = << Comm("A", "A", "t1") >>
      /\ node_paths_in = << NodePath("t1", "t1", "A") >>
      /\ start = "A"
      /\ goal = "A" ) =>
        /\ pc = "done"
        /\ paths = << << NodePathChild(1), CommChild(1), NodePathChild(1) >> >>

TwoEdgeCycle == << Comm("A", "B", "t1"), Comm("B", "A", "t1") >>

SelfLoop == << Comm("A", "A", "t1") >>

\* C6 as stated: in the graph with the two edges A -> B and B -> A labeled t1,
\* search_paths(A, A) returns exactly one path and that path has length 1.
C6_TwoEdgeCycleHasLengthOne ==
    ( /\ GraphSearchEnded
      /\ comms = TwoEdgeCycle
      /\ graph = << Edge("A", "B", "t1"), Edge("B", "A", "t1") >>
      /\ start = "A" /\ goal = "A" /\ max_search_depth = 0 ) =>
        /\ Len(graph_paths) = 1
        /\ Len(graph_paths[1]) = 1

\* C6 as amended: in the graph with the two edges A -> B and B -> A labeled t1,
\* search_paths(A, A) returns exactly one path and that path has length 2; the
\* one path of length 1 is what the graph with the single self-loop edge
\* A -> A gives.
C6_CyclePathLengths ==
    /\ ( /\ GraphSearchEnded
         /\ comms = TwoEdgeCycle
         /\ start = "A" /\ goal = "A" /\ max_search_depth = 0 ) =>
           /\ graph = << Edge("A", "B", "t1"), Edge("B", "A", "t1") >>
           /\ graph_paths = << << Edge("A", "B", "t1"), Edge("B", "A", "t1") >> >>
    /\ ( /\ GraphSearchEnded
         /\ comms = SelfLoop
         /\ start = "A" /\ goal = "A" /\ max_search_depth = 0 ) =>
           /\ graph = << Edge("A", "A", "t1") >>
           /\ graph_paths = << << Edge("A", "A", "t1") >> >>

C6_Witness ==
    /\ pc = "found"
    /\ comms = TwoEdgeCycle
    /\ start = "A" /\ goal = "A" /\ max_search_depth = 0
    /\ Len(graph_paths) = 1

\* the step-by-step enumeration and search_paths as a function agree
SearchPathsAgree ==
    GraphSearchEnded => graph_paths = search_paths(graph, start, goal, max_search_depth)

(***************************************************************************)
(* Properties of the path table and of the communications                  *)
(***************************************************************************)
\* the number of entries of the table with the given input and output
Entries(node_input, node_output) ==
    Cardinality({ k \in DOMAIN node_paths :
                    /\ node_paths[k].node_input = node_input
                    /\ node_paths[k].node_output = node_output })

\* C7: for a node with I inputs and O outputs the path table holds exactly
\* I + O + I*O entries: one (input, None) per input, one (None, output) per
\* output and one (input, output) per pair; this holds once the table is
\* populated and stays so through the callback-graph search and the
\* message-context step, which add and remove no entry.
C7_TableHoldsInputsOutputsAndPairs ==
    cur > 0 =>
        LET ins == node_inputs(nodes[cur])
            outs == node_outputs(nodes[cur])
        IN /\ Len(node_paths) = Len(ins) + Len(outs) + Len(ins) * Len(outs)
           /\ \A i \in DOMAIN ins : Entries(ins[i], NoneEp) = 1
           /\ \A o \in DOMAIN outs : Entries(NoneEp, outs[o]) = 1
           /\ \A i \in DOMAIN ins : \A o \in DOMAIN outs : Entries(ins[i], outs[o]) = 1

C7_Witness ==
    /\ pc = "returned"
    /\ Len(nodes[cur].callbacks) > 0
    /\ Len(nodes[cur].publishers) > Len(node_outputs(nodes[cur]))
    /\ Len(node_paths) = 3
    /\ \E k \in DOMAIN node_paths : node_paths[k].message_context # None

NodePathStructKey(node_path) ==
    <<node_path.node_name, node_path.node_input, node_path.node_output>>

\* C8: in a node's path table at most one NodePath has a given (node name,
\* input endpoint or None, output endpoint or None) key.
C8_KeysAreUnique ==
    \A a \in DOMAIN node_paths : \A b \in DOMAIN node_paths :
        a # b => NodePathStructKey(node_paths[a]) # NodePathStructKey(node_paths[b])

\* the table of a node with two subscriptions of one topic is returned
C8_Witness ==
    /\ pc = "returned"
    /\ \E a \in DOMAIN node_paths : \E b \in DOMAIN node_paths :
        /\ a # b
        /\ node_paths[a].node_input # node_paths[b].node_input
        /\ node_paths[a].node_input.kind = "sub"
        /\ node_paths[b].node_input.kind = "sub"
        /\ node_paths[a].node_input.topic_name = node_paths[b].node_input.topic_name
        /\ node_paths[a].node_output = node_paths[b].node_output

\* the number of communications with the given input and output
Communications(node_input, node_output) ==
    Cardinality({ k \in DOMAIN communications :
                    /\ communications[k].input = node_input
                    /\ communications[k].output = node_output })

AllInputs == UNION { { node_inputs(nodes[r])[i] : i \in DOMAIN node_inputs(nodes[r]) } :
                     r \in DOMAIN nodes }

AllOutputs == UNION { { node_outputs(nodes[s])[o] : o \in DOMAIN node_outputs(nodes[s]) } :
                      s \in DOMAIN nodes }

\* C9: CommunicationsStruct holds one communication for each (output, input)
\* pair, over all ordered node pairs including a node with itself, whose
\* is_pair predicate holds, and none for any other pair; in an ordinary
\* communication the publisher's topic name equals the subscription's.
C9_OneCommunicationPerPair ==
    pc = "comms_built" =>
        /\ \A node_input \in AllInputs : \A node_output \in AllOutputs :
             Communications(node_input, node_output) =
                 IF is_pair(node_input, node_output) THEN 1 ELSE 0
        /\ \A k \in DOMAIN communications :
             /\ communications[k].input \in AllInputs
             /\ communications[k].output \in AllOutputs
             /\ communications[k].kind = "comm" =>
                    communications[k].output.topic_name = communications[k].input.topic_name

C9_Witness ==
    /\ pc = "comms_built"
    /\ \E k \in DOMAIN communications : communications[k].kind = "tf_comm"
    /\ \E k \in DOMAIN communications :
        /\ communications[k].kind = "comm"
        /\ communications[k].input.node_name = communications[k].output.node_name
    /\ \E node_input \in AllInputs : \E node_output \in AllOutputs :
        ~is_pair(node_input, node_output)

\* C10: in every Communication the publish node is the node that owns the
\* publisher and the subscribe node is the node that owns the subscription.
C10_NodesOwnTheirEndpoints ==
    pc = "comms_built" =>
        \A k \in DOMAIN communications :
            communications[k].kind = "comm" =>
                /\ communications[k].node_pub = communications[k].output.node_name
                /\ communications[k].node_sub = communications[k].input.node_name
(***************************************************************************)
(* Duplicate communications                                                *)
(***************************************************************************)
\* NodePathSearcher.__init__ has been called (it returned or raised)
Constructed == pc # "new" /\ pc # "load"

ConstructorRaised == pc = "raised" /\ ~SearchCalled

\* two communications of cs have the same (publisher node, subscriber node, topic)
HasDuplicateTriple(cs) ==
    \E i, j \in DOMAIN cs : i < j /\ CommKey(cs[i]) = CommKey(cs[j])

HasDuplicateNodePath(nps) ==
    \E i, j \in DOMAIN nps : i < j /\ NodePathKey(nps[i]) = NodePathKey(nps[j])

\* the index of the first communication of cs with the triple key
FirstWithKey(cs, key) ==
    CHOOSE i \in DOMAIN cs :
        CommKey(cs[i]) = key /\ \A j \in 1..(i - 1) : CommKey(cs[j]) # key

\* C11: a second communication with the same (publisher node, subscriber
\* node, topic) triple is dropped without raising: the constructor of the
\* searcher returns, its communication table holds for every triple the first
\* communication met, and the node graph has exactly one edge per triple.
C11_DuplicateCommunicationIsDropped ==
    ( /\ Constructed
      /\ HasDuplicateTriple(comms)
      /\ ~HasDuplicateNodePath(node_paths_in) ) =>
        /\ ~ConstructorRaised
        /\ \A key \in DOMAIN comm_dict : comm_dict[key] = FirstWithKey(comms, key)
        /\ \A i, j \in DOMAIN graph : i # j => graph[i] # graph[j]
        /\ \A k \in DOMAIN comms : \E i \in DOMAIN graph : graph[i] = CommEdge(comms[k])

\* the result of CommunicationsStruct holds at most one communication per
\* (publish node, subscribe node, topic)
CommunicationsHoldOnePerTriple ==
    \A i, j \in DOMAIN communications :
        ( /\ communications[i].kind = "comm"
          /\ communications[j].kind = "comm"
          /\ communications[i].node_pub = communications[j].node_pub
          /\ communications[i].node_sub = communications[j].node_sub
          /\ communications[i].output.topic_name = communications[j].output.topic_name )
            => i = j

(***************************************************************************)
(* TopicIgnoredReader: the filtering decorator of the architecture reader  *)
(***************************************************************************)
MaxReaderNodes == 3

NodeValue(name, id) == [node_name |-> name, node_id |-> id]

NoNode == NodeValue(None, None)

\* the node names of the readers, in the order sorted() gives them
ReaderNodeNames == <<"/a", "/b", "/dup">>

ReaderNodeValues ==
    { NodeValue("/a", "a_0"), NodeValue("/b", "b_0"),
      NodeValue("/dup", "dup_0"), NodeValue("/dup", "dup_1") }

ReaderNodeLists == SeqsUpTo(ReaderNodeValues, MaxReaderNodes)

IgnoreLists == { <<>>, <<"/chatter">>, <<"/in", "/chatter">>, <<"/unused">> }

PublisherValue(node, topic) == [node_name |-> node.node_name, topic_name |-> topic]

SubscriptionValue(node, topic) == [node_name |-> node.node_name, topic_name |-> topic]

SubscriptionCallbackValue(node, topic, id) ==
    [node_name |-> node.node_name, subscribe_topic_name |-> topic, callback_id |-> id]

\* callback_ids is a tuple where the reader gives it, and the set of its
\* members where `tuple(set(...) - ...)` leaves its order open
CallbackGroupValue(node, id, callback_ids) ==
    [node_name |-> node.node_name, callback_group_id |-> id, callback_ids |-> callback_ids]

\* self._reader._get_publishers(node)
reader_get_publishers(node) ==
    CASE node.node_id = "a_0" ->
            << PublisherValue(node, "/chatter"), PublisherValue(node, "/out"),
               PublisherValue(node, "/chatter") >>
      [] node.node_id = "b_0" -> << PublisherValue(node, "/out") >>
      [] node.node_id = "dup_0" -> << PublisherValue(node, "/in") >>
      [] OTHER -> <<>>

\* self._reader._get_subscriptions(node)
reader_get_subscriptions(node) ==
    CASE node.node_id = "b_0" ->
            << SubscriptionValue(node, "/chatter"), SubscriptionValue(node, "/in") >>
      [] node.node_id = "dup_0" -> << SubscriptionValue(node, "/chatter") >>
      [] node.node_id = "dup_1" -> << SubscriptionValue(node, "/in") >>
      [] OTHER -> <<>>

\* self._reader._get_subscription_callbacks(node)
reader_get_subscription_callbacks(node) ==
    CASE node.node_id = "b_0" ->
            << SubscriptionCallbackValue(node, "/chatter", "b_sub_0"),
               SubscriptionCallbackValue(node, "/in", "b_sub_1") >>
      [] node.node_id = "dup_0" ->
            << SubscriptionCallbackValue(node, "/chatter", None) >>
      [] node.node_id = "dup_1" ->
            << SubscriptionCallbackValue(node, "/in", "dup_sub_0") >>
      [] OTHER -> <<>>

\* self._reader._get_callback_groups(node)
reader_get_callback_groups(node) ==
    CASE node.node_id = "a_0" ->
            << CallbackGroupValue(node, "a_cbg_0", <<"a_timer_0">>) >>
      [] node.node_id = "b_0" ->
            << CallbackGroupValue(node, "b_cbg_0", <<"b_sub_0", "b_timer_0">>),
               CallbackGroupValue(node, "b_cbg_1", <<"b_sub_1", "b_sub_1">>) >>
      [] node.node_id = "dup_0" -> <<>>
      [] OTHER ->
            << CallbackGroupValue(node, "dup_cbg_0", <<"dup_sub_0", "b_sub_0">>) >>

\* x in a list
InList(x, list) == \E k \in DOMAIN list : list[k] = x

\* the inner loop of _get_ignore_callback_ids over the subscription callbacks
RECURSIVE IgnoredIdsOf(_, _, _, _)
IgnoredIdsOf(sub, k, ignore_topic_set, ids) ==
    IF k > Len(sub) THEN ids
    ELSE IF sub[k].subscribe_topic_name \notin ignore_topic_set
    THEN IgnoredIdsOf(sub, k + 1, ignore_topic_set, ids)
    ELSE IF sub[k].callback_id = None
    THEN IgnoredIdsOf(sub, k + 1, ignore_topic_set, ids)
    ELSE IgnoredIdsOf(sub, k + 1, ignore_topic_set, Append(ids, sub[k].callback_id))

\* TopicIgnoredReader._get_ignore_callback_ids
RECURSIVE _get_ignore_callback_ids(_, _, _, _)
_get_ignore_callback_ids(ns, i, ignore_topic_set, ids) ==
    IF i > Len(ns) THEN Items(ids)
    ELSE _get_ignore_callback_ids(
             ns, i + 1, ignore_topic_set,
             IgnoredIdsOf(reader_get_subscription_callbacks(ns[i]), 1,
                          ignore_topic_set, ids))

\* (a mutant: a later node replaces the node of its name)
RECURSIVE LastOfEachName(_, _, _, _)
LastOfEachName(ns, i, nodes_, node_names) ==
    IF i > Len(ns) THEN nodes_
    ELSE IF ns[i].node_name \notin node_names
    THEN LastOfEachName(ns, i + 1, Append(nodes_, ns[i]),
                        node_names \cup {ns[i].node_name})
    ELSE LastOfEachName(
             ns, i + 1,
             [k \in DOMAIN nodes_ |->
                 IF nodes_[k].node_name = ns[i].node_name THEN ns[i] ELSE nodes_[k]],
             node_names)

\* get_nodes: `for node in nodes: if node.node_name not in node_names: ...`
RECURSIVE FirstOfEachName(_, _, _, _)
FirstOfEachName(ns, i, nodes_, node_names) ==
    IF i > Len(ns) THEN nodes_
    ELSE IF ns[i].node_name \notin node_names
    THEN FirstOfEachName(ns, i + 1, Append(nodes_, ns[i]),
                         node_names \cup {ns[i].node_name})
    ELSE FirstOfEachName(ns, i + 1, nodes_, node_names)

\* TopicIgnoredReader._validate: groupby groups equal names that are adjacent
_validate(ns) ==
    IF \E i \in 1..(Len(ns) - 1) : ns[i].node_name = ns[i + 1].node_name
    THEN "InvalidReaderError"
    ELSE "none"

NameRank(name) == CHOOSE r \in DOMAIN ReaderNodeNames : ReaderNodeNames[r] = name

\* insertion of x into the sorted list, after the items that are not greater
RECURSIVE InsertSorted(_, _, _)
InsertSorted(sorted_, x, k) ==
    IF k > Len(sorted_) THEN Append(sorted_, x)
    ELSE IF NameRank(x.node_name) < NameRank(sorted_[k].node_name)
    THEN SubSeq(sorted_, 1, k - 1) \o <<x>> \o SubSeq(sorted_, k, Len(sorted_))
    ELSE InsertSorted(sorted_, x, k + 1)

\* sorted(nodes_, key=lambda x: x.node_name)
RECURSIVE SortedByNodeName(_, _, _)
SortedByNodeName(ns, i, sorted_) ==
    IF i > Len(ns) THEN sorted_
    ELSE SortedByNodeName(ns, i + 1, InsertSorted(sorted_, ns[i], 1))

Returned(method, node, warned, value) ==
    [method |-> method, node |-> node, exc |-> "none", warned |-> warned,
     value |-> value]

\* TopicIgnoredReader.get_nodes
TopicIgnoredReader_get_nodes ==
    LET nodes_ == FirstOfEachName(reader_nodes, 1, <<>>, {})
        \* except InvalidReaderError as e: logger.warn(e)
        warned == _validate(reader_nodes) = "InvalidReaderError"
    IN Returned("get_nodes", NoNode, warned, SortedByNodeName(nodes_, 1, <<>>))

\* TopicIgnoredReader._get_publishers
TopicIgnoredReader_get_publishers(node) ==
    filter_items({publisher \in Items(reader_get_publishers(node)) :
                     ~InList(publisher.topic_name, ignore_topics)},
                 reader_get_publishers(node))

\* TopicIgnoredReader._get_subscriptions
TopicIgnoredReader_get_subscriptions(node) ==
    filter_items({subscription \in Items(reader_get_subscriptions(node)) :
                     ~InList(subscription.topic_name, ignore_topics)},
                 reader_get_subscriptions(node))

\* TopicIgnoredReader._get_subscription_callbacks
TopicIgnoredReader_get_subscription_callbacks(node) ==
    filter_items({subscription_callback \in Items(reader_get_subscription_callbacks(node)) :
                     ~InList(subscription_callback.subscribe_topic_name, ignore_topics)},
                 reader_get_subscription_callbacks(node))

\* (a mutant: the callback groups of the wrapped reader are handed through)
CallbackIdsUnfiltered(cbg) == Items(cbg.callback_ids)

\* tuple(set(cbg.callback_ids) - self._ignore_callback_ids)
CallbackIds(cbg) == Items(cbg.callback_ids) \ ignore_callback_ids

\* TopicIgnoredReader._get_callback_groups
TopicIgnoredReader_get_callback_groups(node) ==
    LET cbgs == reader_get_callback_groups(node) IN
    [k \in DOMAIN cbgs |->
        [node_name |-> cbgs[k].node_name,
         callback_group_id |-> cbgs[k].callback_group_id,
         callback_ids |-> CallbackIds(cbgs[k])]]

\* the variables of the search and of the loading
CoreVars == <<raised, SearcherVars, QueryVars, DfsVars, paths, LoadVars>>

\* no searcher exists and nothing is loaded
CoreIdle ==
    /\ raised = "none"
    /\ node_paths_in = <<>>
    /\ comms = <<>>
    /\ node_path_dict = <<>>
    /\ comm_dict = <<>>
    /\ graph = <<>>
    /\ filters = NoFilters
    /\ start = None
    /\ goal = None
    /\ max_node_depth = <<>>
    /\ max_search_depth = 0
    /\ stack = <<>>
    /\ path = <<>>
    /\ graph_paths = <<>>
    /\ paths = <<>>
    /\ nodes = <<>>
    /\ tf_tree = NoTree
    /\ cur = 0
    /\ node_paths = <<>>
    /\ communications = <<>>

\* TopicIgnoredReader.__init__
TopicIgnoredReader_init ==
    /\ pc = "reader_new"
    /\ pc' = "reader"
    /\ ignore_callback_ids' =
           _get_ignore_callback_ids(reader_nodes, 1, Items(ignore_topics), <<>>)
    /\ UNCHANGED <<reader_nodes, ignore_topics, result>>
    /\ UNCHANGED CoreVars
    /\ UNCHANGED <<StructVars, TreeVars, PathVars>>

\* a call on the TopicIgnoredReader returns
Call(value) ==
    /\ pc = "reader"
    /\ result' = value
    /\ UNCHANGED <<pc, reader_nodes, ignore_topics, ignore_callback_ids>>
    /\ UNCHANGED CoreVars
    /\ UNCHANGED <<StructVars, TreeVars, PathVars>>

get_nodes == Call(TopicIgnoredReader_get_nodes)

_get_publishers ==
    \E node \in Items(reader_nodes) :
        Call(Returned("_get_publishers", node, FALSE,
                      TopicIgnoredReader_get_publishers(node)))

_get_subscriptions ==
    \E node \in Items(reader_nodes) :
        Call(Returned("_get_subscriptions", node, FALSE,
                      TopicIgnoredReader_get_subscriptions(node)))

_get_subscription_callbacks ==
    \E node \in Items(reader_nodes) :
        Call(Returned("_get_subscription_callbacks", node, FALSE,
                      TopicIgnoredReader_get_subscription_callbacks(node)))

_get_callback_groups ==
    \E node \in Items(reader_nodes) :
        Call(Returned("_get_callback_groups", node, FALSE,
                      TopicIgnoredReader_get_callback_groups(node)))

ReaderInit ==
    /\ pc = "reader_new"
    /\ CoreIdle
    /\ reader_nodes \in ReaderNodeLists
    /\ ignore_topics \in IgnoreLists
    /\ ignore_callback_ids = {}
    /\ result = NoResult
    /\ StructIdle
    /\ TreeIdle
    /\ PathIdle

ReaderNext ==
    \/ TopicIgnoredReader_init
    \/ get_nodes
    \/ _get_publishers
    \/ _get_subscriptions
    \/ _get_subscription_callbacks
    \/ _get_callback_groups

ReaderSpec == ReaderInit /\ [][ReaderNext]_vars

\* the node names of a list of nodes
NamesOf(ns) == { ns[k].node_name : k \in DOMAIN ns }

\* the first node of the list with the name
FirstNamed(ns, name) ==
    ns[CHOOSE k \in DOMAIN ns :
           ns[k].node_name = name /\ \A j \in 1..(k - 1) : ns[j].node_name # name]

\* C12: get_nodes returns exactly one node per distinct node name of the
\* reader's sequence, that node being the first occurrence of the name, and
\* raises nothing, also when names are duplicated.
C12_GetNodesKeepsFirstOfEachName ==
    result.method = "get_nodes" =>
        /\ result.exc = "none"
        /\ NamesOf(result.value) = NamesOf(reader_nodes)
        /\ \A i, j \in DOMAIN result.value :
               result.value[i].node_name = result.value[j].node_name => i = j
        /\ \A i \in DOMAIN result.value :
               result.value[i] = FirstNamed(reader_nodes, result.value[i].node_name)

\* the reader names "/dup" twice with another node in between, and the two
\* nodes named "/dup" differ
C12_Witness ==
    /\ result.method = "get_nodes"
    /\ Len(reader_nodes) = 3
    /\ reader_nodes[1].node_name = "/dup"
    /\ reader_nodes[3].node_name = "/dup"
    /\ reader_nodes[1] # reader_nodes[3]
    /\ reader_nodes[2].node_name = "/a"
    /\ ~result.warned
    /\ Len(result.value) = 2

\* how often x is in the list
Count(list, x) == Cardinality({ k \in DOMAIN list : list[k] = x })

\* the topic of a publisher, a subscription or a subscription callback
TopicOf(x) ==
    IF "topic_name" \in DOMAIN x THEN x.topic_name ELSE x.subscribe_topic_name

\* the list holds the items of the underlying list whose topic is not
\* ignored, each as often as the underlying list, and nothing else
DropsIgnored(value, underlying) ==
    /\ \A k \in DOMAIN value : ~InList(TopicOf(value[k]), ignore_topics)
    /\ \A k \in DOMAIN value : Count(value, value[k]) = Count(underlying, value[k])
    /\ \A k \in DOMAIN underlying :
           ~InList(TopicOf(underlying[k]), ignore_topics) => InList(underlying[k], value)

\* the ids of the subscription callbacks of the reader's nodes that are
\* subscribed to an ignored topic
IgnoredSubscriptionCallbackIds ==
    { cb.callback_id :
        cb \in { c \in UNION { Items(reader_get_subscription_callbacks(reader_nodes[n])) :
                                 n \in DOMAIN reader_nodes } :
                   InList(c.subscribe_topic_name, ignore_topics) } } \ {None}

\* C18: the TopicIgnoredReader returns no publisher, subscription or
\* subscription callback whose topic is in the ignore list and every other
\* one of the wrapped reader, and callback groups whose callback ids are the
\* wrapped reader's ids minus the ids of the subscription callbacks that are
\* subscribed to an ignored topic.
C18_IgnoredTopicsAreDropped ==
    /\ result.method = "_get_publishers" =>
           DropsIgnored(result.value, reader_get_publishers(result.node))
    /\ result.method = "_get_subscriptions" =>
           DropsIgnored(result.value, reader_get_subscriptions(result.node))
    /\ result.method = "_get_subscription_callbacks" =>
           DropsIgnored(result.value, reader_get_subscription_callbacks(result.node))
    /\ result.method = "_get_callback_groups" =>
           /\ Len(result.value) = Len(reader_get_callback_groups(result.node))
           /\ \A k \in DOMAIN result.value :
                  /\ result.value[k].callback_group_id =
                         reader_get_callback_groups(result.node)[k].callback_group_id
                  /\ result.value[k].callback_ids =
                         Items(reader_get_callback_groups(result.node)[k].callback_ids)
                             \ IgnoredSubscriptionCallbackIds

\* the callback group of a node loses the id of a subscription callback on
\* the ignored topic and keeps its other id
C18_Witness ==
    /\ result.method = "_get_callback_groups"
    /\ result.node.node_id = "b_0"
    /\ InList("/chatter", ignore_topics)
    /\ ~InList("/in", ignore_topics)
    /\ result.value[1].callback_ids = {"b_timer_0"}
    /\ result.value[2].callback_ids = {"b_sub_1"}

(***************************************************************************)
(* Structs and their value objects: to_value and the mutators.  A Struct   *)
(* is a record of its fields, an optional field is Absence or Present(x),  *)
(* and a method returns the exception it raised, its return value and the  *)
(* Struct as the call left it.                                             *)
(***************************************************************************)
\* x.to_value(): the to_value of the class of x, defined below
RECURSIVE to_value(_)

Done(exc, value, struct) == [exc |-> exc, value |-> value, struct |-> struct]

\* `None if x is None else ...`
IsNone(x) == x.is_none

\* CallbackStruct.__init__ (TimerCallbackStruct, SubscriptionCallbackStruct)
TimerCallbackStruct_init(callback_name, callback_id, period_ns, node_name, symbol, publish_topic_names) ==
    [kind |-> "TimerCallbackStruct", node_name |-> node_name,
     callback_name |-> callback_name, callback_id |-> callback_id, symbol |-> symbol,
     period_ns |-> period_ns, subscribe_topic_name |-> None,
     publish_topic_names |-> publish_topic_names]

SubscriptionCallbackStruct_init(callback_name, callback_id, node_name, symbol, subscribe_topic_name, publish_topic_names) ==
    [kind |-> "SubscriptionCallbackStruct", node_name |-> node_name,
     callback_name |-> callback_name, callback_id |-> callback_id, symbol |-> symbol,
     period_ns |-> None, subscribe_topic_name |-> subscribe_topic_name,
     publish_topic_names |-> publish_topic_names]

\* the asserts of the properties a to_value reads: the first field that is
\* None raises AssertionError
AssertNotNone(fields) ==
    IF \E k \in DOMAIN fields : fields[k] = None THEN "AssertionError" ELSE "none"

\* TimerCallbackStruct.to_value
TimerCallbackStruct_to_value(s) ==
    LET exc == AssertNotNone(<<s.node_name, s.symbol, s.period_ns>>) IN
    IF exc # "none" THEN Done(exc, None, s)
    ELSE Done("none",
              [class |-> "TimerCallbackStructValue", node_name |-> s.node_name,
               symbol |-> s.symbol, period_ns |-> s.period_ns,
               publish_topic_names |-> s.publish_topic_names,
               callback_name |-> s.callback_name, callback_id |-> s.callback_id],
              s)

\* SubscriptionCallbackStruct.to_value
SubscriptionCallbackStruct_to_value(s) ==
    LET exc == AssertNotNone(<<s.node_name, s.symbol, s.subscribe_topic_name>>) IN
    IF exc # "none" THEN Done(exc, None, s)
    ELSE Done("none",
              [class |-> "SubscriptionCallbackStructValue", node_name |-> s.node_name,
               symbol |-> s.symbol, subscribe_topic_name |-> s.subscribe_topic_name,
               publish_topic_names |-> s.publish_topic_names,
               callback_name |-> s.callback_name, callback_id |-> s.callback_id],
              s)

\* callback.to_value() of a CallbackStruct
CallbackStruct_to_value(s) ==
    IF s.kind = "TimerCallbackStruct" THEN TimerCallbackStruct_to_value(s)
    ELSE SubscriptionCallbackStruct_to_value(s)

\* CallbacksStruct.to_value: tuple(_.to_value() for _ in self._cb_dict.values())
RECURSIVE CallbacksStruct_to_value(_, _, _)
CallbacksStruct_to_value(cbs, k, values) ==
    IF k > Len(cbs) THEN Done("none", values, cbs)
    ELSE LET r == CallbackStruct_to_value(cbs[k]) IN
         IF r.exc # "none" THEN Done(r.exc, None, cbs)
         ELSE CallbacksStruct_to_value(cbs, k + 1, Append(values, r.value))

\* PublisherStruct.__init__
PublisherStruct_init(node_name, topic_name, callbacks) ==
    [kind |-> "PublisherStruct", node_name |-> node_name, topic_name |-> topic_name,
     callbacks |-> callbacks]

\* PublisherStruct.to_value
PublisherStruct_to_value(s) ==
    LET cbs == IF IsNone(s.callbacks) THEN Done("none", None, <<>>)
               ELSE CallbacksStruct_to_value(s.callbacks.data, 1, <<>>)
        exc == IF cbs.exc # "none" THEN cbs.exc
               ELSE AssertNotNone(<<s.node_name, s.topic_name>>)
    IN IF exc # "none" THEN Done(exc, None, s)
       ELSE Done("none",
                 [class |-> "PublisherStructValue", node_name |-> s.node_name,
                  topic_name |-> s.topic_name, callback_values |-> cbs.value],
                 s)

\* PublisherStruct.callbacks (setter)
PublisherStruct_set_callbacks(s, callbacks) ==
    Done("none", None, [s EXCEPT !.callbacks = Present(callbacks)])

\* SubscriptionStruct.__init__
SubscriptionStruct_init(node_name, topic_name, callback) ==
    [kind |-> "SubscriptionStruct", node_name |-> node_name, topic_name |-> topic_name,
     callback |-> callback, is_transformed |-> FALSE]

\* a to_value whose value object carries the flag it read before setting it
SubscriptionStruct_to_value_flagged(s) ==
    LET transformed == [s EXCEPT !.is_transformed = TRUE]
        cb == IF IsNone(s.callback) THEN Done("none", None, None)
              ELSE CallbackStruct_to_value(s.callback.data)
    IN IF cb.exc # "none" THEN Done(cb.exc, None, transformed)
       ELSE Done("none",
                 [class |-> "SubscriptionStructValue", node_name |-> s.node_name,
                  topic_name |-> s.topic_name, callback |-> cb.value,
                  is_transformed |-> s.is_transformed],
                 transformed)

\* SubscriptionStruct.to_value
SubscriptionStruct_to_value(s) ==
    LET transformed == [s EXCEPT !.is_transformed = TRUE]
        cb == IF IsNone(s.callback) THEN Done("none", None, None)
              ELSE CallbackStruct_to_value(s.callback.data)
    IN IF cb.exc # "none" THEN Done(cb.exc, None, transformed)
       ELSE Done("none",
                 [class |-> "SubscriptionStructValue", node_name |-> s.node_name,
                  topic_name |-> s.topic_name, callback |-> cb.value],
                 transformed)

\* SubscriptionStruct.callback (setter)
SubscriptionStruct_set_callback(s, callback) ==
    IF s.is_transformed # FALSE THEN Done("AssertionError", None, s)
    ELSE Done("none", None, [s EXCEPT !.callback = Present(callback)])

\* SubscriptionsStruct.__init__ and the subscriptions added to it
SubscriptionsStruct_init(data) ==
    [kind |-> "SubscriptionsStruct", data |-> data, is_transformed |-> FALSE]

\* tuple(subscription.to_value() for subscription in self)
RECURSIVE EachSubscriptionToValue(_, _, _)
EachSubscriptionToValue(subs, k, values) ==
    IF k > Len(subs) THEN Done("none", values, subs)
    ELSE LET r == to_value(subs[k])
             subs_ == [subs EXCEPT ![k] = r.struct]
         IN IF r.exc # "none" THEN Done(r.exc, None, subs_)
            ELSE EachSubscriptionToValue(subs_, k + 1, Append(values, r.value))

\* SubscriptionsStruct.to_value
SubscriptionsStruct_to_value(s) ==
    LET r == EachSubscriptionToValue(s.data, 1, <<>>) IN
    Done(r.exc, r.value, [s EXCEPT !.is_transformed = TRUE, !.data = r.struct])

\* SubscriptionsStruct.add
SubscriptionsStruct_add(s, subscription) ==
    IF s.is_transformed # FALSE THEN Done("AssertionError", None, s)
    ELSE Done("none", None, [s EXCEPT !.data = Append(@, subscription)])

\* PublishersStruct.to_value: tuple(_.to_value() for _ in self._data)
RECURSIVE PublishersStruct_to_value(_, _, _)
PublishersStruct_to_value(pubs, k, values) ==
    IF k > Len(pubs) THEN Done("none", values, pubs)
    ELSE LET r == to_value(pubs[k]) IN
         IF r.exc # "none" THEN Done(r.exc, None, pubs)
         ELSE PublishersStruct_to_value(pubs, k + 1, Append(values, r.value))

\* TransformFrameBroadcasterStruct.__init__
TransformFrameBroadcasterStruct_init(publisher, transform) ==
    [kind |-> "TransformFrameBroadcasterStruct", publisher |-> publisher,
     transform |-> transform]

\* TransformFrameBroadcasterStruct.to_value
TransformFrameBroadcasterStruct_to_value(s) ==
    IF IsNone(s.publisher) THEN Done("AssertionError", None, s)
    ELSE LET pub == to_value(s.publisher.data) IN
         IF pub.exc # "none" THEN Done(pub.exc, None, s)
         ELSE IF s.transform = NoTf THEN Done("AssertionError", None, s)
         ELSE Done("none",
                   [class |-> "TransformFrameBroadcasterStructValue",
                    publisher |-> pub.value, transform |-> s.transform],
                   s)

\* TransformFrameBufferStruct.__init__
TransformFrameBufferStruct_init(tree, transform, lookup_node_name, listener_node_name) ==
    [kind |-> "TransformFrameBufferStruct", tf_tree |-> tree, transform |-> transform,
     lookup_node_name |-> lookup_node_name, listener_node_name |-> listener_node_name]

\* TransformFrameBufferStruct.to_value
TransformFrameBufferStruct_to_value(s) ==
    IF s.lookup_node_name = None \/ s.transform = NoTf
    THEN Done("AssertionError", None, s)
    ELSE Done("none",
              [class |-> "TransformFrameBufferStructValue",
               lookup_node_name |-> s.lookup_node_name,
               listener_node_name |-> s.listener_node_name,
               transform |-> s.transform],
              s)

\* TransformBroadcasterStruct.__init__: one frame broadcaster per transform
TransformBroadcasterStruct_init(publisher, transforms) ==
    [kind |-> "TransformBroadcasterStruct", publisher |-> publisher,
     transforms |-> transforms,
     frame_brs |-> [k \in DOMAIN transforms |->
                       TransformFrameBroadcasterStruct_init(Present(publisher),
                                                            transforms[k])]]

\* TransformBroadcasterStruct.to_value
TransformBroadcasterStruct_to_value(s) ==
    LET pub == to_value(s.publisher) IN
    IF pub.exc # "none" THEN Done(pub.exc, None, s)
    ELSE Done("none",
              [class |-> "TransformBroadcasterStructValue", publisher |-> pub.value,
               transforms |-> s.transforms],
              s)

\* TransformBufferStruct.__init__: one frame buffer per lookup transform
TransformBufferStruct_init(lookup_node_name, tree, lookup_transforms, listener_node_name) ==
    [kind |-> "TransformBufferStruct", lookup_node_name |-> lookup_node_name,
     listener_node_name |-> listener_node_name,
     lookup_transforms |-> lookup_transforms,
     frame_buffs |-> [k \in DOMAIN lookup_transforms |->
                         TransformFrameBufferStruct_init(tree, lookup_transforms[k],
                                                         lookup_node_name,
                                                         listener_node_name)]]

\* TransformBufferStruct.to_value
TransformBufferStruct_to_value(s) ==
    IF s.lookup_node_name = None THEN Done("AssertionError", None, s)
    ELSE Done("none",
              [class |-> "TransformBufferStructValue",
               lookup_node_name |-> s.lookup_node_name,
               listener_node_name |-> s.listener_node_name,
               lookup_transforms |-> s.lookup_transforms],
              s)

\* VariablePassingStruct.__init__
VariablePassingStruct_init(node_name, callback_write, callback_read) ==
    [kind |-> "VariablePassingStruct", node_name |-> node_name,
     callback_write |-> callback_write, callback_read |-> callback_read]

\* VariablePassingStruct.to_value: callback_write is a property that asserts,
\* callback_read is a method and is handed over as the bound method
VariablePassingStruct_to_value(s) ==
    IF s.node_name = None \/ IsNone(s.callback_write)
    THEN Done("AssertionError", None, s)
    ELSE Done("none",
              [class |-> "VariablePassingStructValue", node_name |-> s.node_name,
               callback_write |-> s.callback_write.data,
               callback_read |-> [bound_method |-> "callback_read", self |-> s]],
              s)

\* NodePathStruct.__init__
NodePathStruct_init(node_name, node_input, node_output, child, message_context) ==
    [kind |-> "NodePathStruct", node_name |-> node_name, node_input |-> node_input,
     node_output |-> node_output, child |-> child, message_context |-> message_context]

\* isinstance(self._node_output, PublisherStruct) and the like
IsInstance(field, kind) == ~IsNone(field) /\ field.data.kind = kind

\* _.to_value() of a child of a node path
ChildToValue(c) ==
    IF c.kind = "VariablePassingStruct" THEN to_value(c)
    ELSE CallbackStruct_to_value(c)

\* tuple(_.to_value() for _ in self.child)
RECURSIVE EachChildToValue(_, _, _)
EachChildToValue(child, k, values) ==
    IF k > Len(child) THEN Done("none", values, child)
    ELSE LET r == ChildToValue(child[k]) IN
         IF r.exc # "none" THEN Done(r.exc, None, child)
         ELSE EachChildToValue(child, k + 1, Append(values, r.value))

\* `None if self.<field> is None else self.<field>.to_value()`
NoneOr(applies, r) == IF applies THEN r ELSE Done("none", None, None)

\* the first exception of a sequence of calls
FirstExc(rs) ==
    IF \A k \in DOMAIN rs : rs[k].exc = "none" THEN "none"
    ELSE rs[CHOOSE k \in DOMAIN rs :
                rs[k].exc # "none" /\ \A j \in 1..(k - 1) : rs[j].exc = "none"].exc

\* NodePathStruct.to_value
NodePathStruct_to_value(s) ==
    LET is_pub == IsInstance(s.node_output, "PublisherStruct")
        is_sub == IsInstance(s.node_input, "SubscriptionStruct")
        is_buf == IsInstance(s.node_input, "TransformFrameBufferStruct")
        is_br == IsInstance(s.node_output, "TransformFrameBroadcasterStruct")
        assert_ == IF s.node_name = None THEN "AssertionError"
                   ELSE IF is_pub /\ s.node_output.data.topic_name = None
                   THEN "AssertionError"
                   ELSE IF is_pub /\ s.node_output.data.topic_name = "/tf"
                   THEN "AssertionError"
                   ELSE "none"
        publisher == NoneOr(is_pub, to_value(s.node_output.data))
        subscription == NoneOr(is_sub, to_value(s.node_input.data))
        tf_frame_buffer ==
            NoneOr(is_buf, to_value(s.node_input.data))
        tf_frame_br ==
            NoneOr(is_br, to_value(s.node_output.data))
        child == NoneOr(~IsNone(s.child), EachChildToValue(s.child.data, 1, <<>>))
        exc == FirstExc(<<publisher, subscription, tf_frame_buffer, tf_frame_br, child>>)
        \* subscription.to_value() has marked the subscription, unless an
        \* exception left to_value before it was called
        left == IF is_sub /\ publisher.exc = "none"
                THEN [s EXCEPT !.node_input = Present(subscription.struct)]
                ELSE s
    IN IF assert_ # "none" THEN Done(assert_, None, s)
       ELSE IF exc # "none" THEN Done(exc, None, left)
       ELSE Done("none",
                 [class |-> "NodePathStructValue", node_name |-> s.node_name,
                  subscription |-> subscription.value, publisher |-> publisher.value,
                  tf_frame_buffer |-> tf_frame_buffer.value,
                  tf_frame_broadcaster |-> tf_frame_br.value,
                  child |-> child.value, message_context |-> s.message_context],
                 left)

\* NodePathStruct.message_context (setter)
NodePathStruct_set_message_context(s, message_context) ==
    Done("none", None, [s EXCEPT !.message_context = message_context])

\* NodePathStruct.child (setter)
NodePathStruct_set_child(s, child) ==
    Done("none", None, [s EXCEPT !.child = Present(child)])

\* NodePathsStruct.to_value: tuple(_.to_value() for _ in self._data)
RECURSIVE NodePathsStruct_to_value(_, _, _)
NodePathsStruct_to_value(data, k, values) ==
    IF k > Len(data) THEN Done("none", values, data)
    ELSE LET r == to_value(data[k])
             data_ == [data EXCEPT ![k] = r.struct]
         IN IF r.exc # "none" THEN Done(r.exc, None, data_)
            ELSE NodePathsStruct_to_value(data_, k + 1, Append(values, r.value))

\* VariablePassingsStruct.to_value: tuple(_.to_value() for _ in self._data)
RECURSIVE VariablePassingsStruct_to_value(_, _, _)
VariablePassingsStruct_to_value(data, k, values) ==
    IF k > Len(data) THEN Done("none", values, data)
    ELSE LET r == to_value(data[k]) IN
         IF r.exc # "none" THEN Done(r.exc, None, data)
         ELSE VariablePassingsStruct_to_value(data, k + 1, Append(values, r.value))

\* TimersStruct.to_value and CallbackGroupsStruct.to_value, of a collection
\* without items
EmptyCollection_to_value(data) == Done("none", <<>>, data)

\* NodeStruct.__init__
NodeStruct_init(node_id, node_name, publishers, subscriptions, timers, nps, callback_groups, variable_passings, tf_buffer, tf_broadcaster) ==
    [kind |-> "NodeStruct", node_id |-> node_id, node_name |-> node_name,
     publishers |-> publishers, subscriptions |-> subscriptions, timers |-> timers,
     node_paths |-> nps, callback_groups |-> callback_groups,
     variable_passings |-> variable_passings, tf_buffer |-> tf_buffer,
     tf_broadcaster |-> tf_broadcaster]

\* NodeStruct.to_value
NodeStruct_to_value(s) ==
    LET assert_ ==
            IF \/ s.node_name = None
               \/ s.node_id = None
               \/ IsNone(s.publishers)
               \/ IsNone(s.subscriptions)
               \/ IsNone(s.node_paths)
               \/ IsNone(s.callback_groups)
               \/ IsNone(s.variable_passings)
               \/ IsNone(s.timers)
            THEN "AssertionError" ELSE "none"
        publishers_ == PublishersStruct_to_value(s.publishers.data, 1, <<>>)
        subscriptions_ == to_value(s.subscriptions.data)
        timers_ == EmptyCollection_to_value(s.timers.data)
        node_paths_ == NodePathsStruct_to_value(s.node_paths.data, 1, <<>>)
        callback_groups_ == EmptyCollection_to_value(s.callback_groups.data)
        variable_passings_ ==
            VariablePassingsStruct_to_value(s.variable_passings.data, 1, <<>>)
        tf_buffer_ == NoneOr(~IsNone(s.tf_buffer),
                             to_value(s.tf_buffer.data))
        tf_broadcaster_ == NoneOr(~IsNone(s.tf_broadcaster),
                                  to_value(s.tf_broadcaster.data))
        exc == FirstExc(<<publishers_, subscriptions_, timers_, node_paths_,
                          callback_groups_, variable_passings_, tf_buffer_,
                          tf_broadcaster_>>)
        \* the subscriptions and the node paths as their to_value left them,
        \* unless an exception left to_value before it was called
        left1 == IF publishers_.exc = "none"
                 THEN [s EXCEPT !.subscriptions = Present(subscriptions_.struct)]
                 ELSE s
        left == IF FirstExc(<<publishers_, subscriptions_, timers_>>) = "none"
                THEN [left1 EXCEPT !.node_paths = Present(node_paths_.struct)]
                ELSE left1
    IN IF assert_ # "none" THEN Done(assert_, None, s)
       ELSE IF exc # "none" THEN Done(exc, None, left)
       ELSE Done("none",
                 [class |-> "NodeStructValue", node_name |-> s.node_name,
                  node_id |-> s.node_id, publishers |-> publishers_.value,
                  subscriptions |-> subscriptions_.value, timers |-> timers_.value,
                  node_paths |-> node_paths_.value,
                  callback_groups |-> callback_groups_.value,
                  variable_passings |-> variable_passings_.value,
                  tf_buffer |-> tf_buffer_.value,
                  tf_broadcaster |-> tf_broadcaster_.value],
                 left)

\* NodeStruct.node_name (setter)
NodeStruct_set_node_name(s, node_name) ==
    Done("none", None, [s EXCEPT !.node_name = node_name])

\* CommunicationStruct.__init__ (pub, sub, node_pub, node_sub and the two
\* callback fields, which it sets to None)
CommunicationStruct_init(pub, sub, node_pub, node_sub) ==
    [kind |-> "CommunicationStruct", pub |-> pub, sub |-> sub, node_pub |-> node_pub,
     node_sub |-> node_sub, callback_pub |-> None, callback_sub |-> None]

\* CommunicationStruct.to_value
CommunicationStruct_to_value(s) ==
    LET node_pub == to_value(s.node_pub)
        node_sub == to_value(s.node_sub)
        publisher == to_value(s.pub)
        subscription == to_value(s.sub)
        exc == FirstExc(<<node_pub, node_sub, publisher, subscription>>)
        left1 == [s EXCEPT !.node_pub = node_pub.struct]
        left2 == IF node_pub.exc = "none"
                 THEN [left1 EXCEPT !.node_sub = node_sub.struct] ELSE left1
        left == IF FirstExc(<<node_pub, node_sub, publisher>>) = "none"
                THEN [left2 EXCEPT !.sub = subscription.struct] ELSE left2
    IN IF exc # "none" THEN Done(exc, None, left)
       ELSE Done("none",
                 [class |-> "CommunicationStructValue", node_publish |-> node_pub.value,
                  node_subscription |-> node_sub.value, publisher |-> publisher.value,
                  subscription |-> subscription.value, callbacks_pub |-> None,
                  callback_sub |-> None],
                 left)

\* TransformCommunicationStruct.to_value
TransformCommunicationStruct_to_value(s) ==
    LET broadcaster == to_value(s.broadcaster)
        buffer == to_value(s.buffer)
        exc == FirstExc(<<broadcaster, buffer>>)
    IN IF exc # "none" THEN Done(exc, None, s)
       ELSE Done("none",
                 [class |-> "TransformCommunicationStructValue",
                  broadcaster |-> broadcaster.value, buffer |-> buffer.value],
                 s)

\* s.to_value() of a Struct
to_value(s) ==
    CASE s.kind = "PublisherStruct" -> PublisherStruct_to_value(s)
      [] s.kind = "SubscriptionStruct" -> SubscriptionStruct_to_value(s)
      [] s.kind = "SubscriptionsStruct" -> SubscriptionsStruct_to_value(s)
      [] s.kind = "TimerCallbackStruct" -> TimerCallbackStruct_to_value(s)
      [] s.kind = "SubscriptionCallbackStruct" -> SubscriptionCallbackStruct_to_value(s)
      [] s.kind = "VariablePassingStruct" -> VariablePassingStruct_to_value(s)
      [] s.kind = "TransformFrameBroadcasterStruct" ->
             TransformFrameBroadcasterStruct_to_value(s)
      [] s.kind = "TransformFrameBufferStruct" -> TransformFrameBufferStruct_to_value(s)
      [] s.kind = "TransformBroadcasterStruct" -> TransformBroadcasterStruct_to_value(s)
      [] s.kind = "TransformBufferStruct" -> TransformBufferStruct_to_value(s)
      [] s.kind = "NodePathStruct" -> NodePathStruct_to_value(s)
      [] s.kind = "NodeStruct" -> NodeStruct_to_value(s)
      [] s.kind = "CommunicationStruct" -> CommunicationStruct_to_value(s)
      [] s.kind = "TransformCommunicationStruct" ->
             TransformCommunicationStruct_to_value(s)

\* TransformCommunicationStruct.__init__
TransformCommunicationStruct_init(broadcaster, buffer) ==
    [kind |-> "TransformCommunicationStruct", broadcaster |-> broadcaster,
     buffer |-> buffer]

MaxToValueCalls == 2

\* the Structs under test
TimerCb == TimerCallbackStruct_init("timer_cb_0", "cb0", "100", "/n", "sym", Present(<<"/out">>))

SubCb == SubscriptionCallbackStruct_init("sub_cb_0", "cb1", "/n", "sym", "/in", Absence)

\* a callback whose symbol is None
NoSymbolCb == TimerCallbackStruct_init("timer_cb_1", "cb2", "100", "/n", None, Absence)

Pub == PublisherStruct_init("/n", "/out", Absence)

PubWithCallbacks == PublisherStruct_init("/n", "/out", Present(<<TimerCb, SubCb>>))

\* what PublisherStruct.create_instance builds: PublisherStruct()
PubUnnamed == PublisherStruct_init(None, None, Absence)

TfPub == PublisherStruct_init("/n", "/tf", Absence)

Sub == SubscriptionStruct_init("/n", "/in", Absence)

SubWithCallback == SubscriptionStruct_init("/n", "/in", Present(SubCb))

Subs == SubscriptionsStruct_init(<<Sub, SubWithCallback>>)

VarPass == VariablePassingStruct_init("/n", Present(SubCb), Present(TimerCb))

Br == TransformBroadcasterStruct_init(TfPub, <<Tf("map", "odom"), Tf("odom", "base_link")>>)

Buf == TransformBufferStruct_init("/n", Tree(Tf("map", "odom"), <<>>), <<Tf("map", "odom")>>, None)

NodePaths ==
    << NodePathStruct_init("/n", Present(SubWithCallback), Present(PubWithCallbacks),
                           Present(<<SubCb, VarPass, TimerCb>>), "use_latest_message"),
       NodePathStruct_init("/n", Present(Buf.frame_buffs[1]), Present(Br.frame_brs[2]),
                           Absence, None),
       NodePathStruct_init("/n", Absence, Present(Pub), Absence, None),
       NodePathStruct_init("/n", Present(Sub), Absence, Absence, None) >>

\* a node path whose output is an ordinary publisher of '/tf'
TfNodePath == NodePathStruct_init("/n", Present(Sub), Present(TfPub), Absence, None)

Node ==
    NodeStruct_init("/n", "/n", Present(<<Pub, PubWithCallbacks>>), Present(Subs),
                    Present(<<>>), Present(NodePaths), Present(<<>>),
                    Present(<<VarPass>>), Present(Buf), Present(Br))

\* a node as NodeStruct.__init__ leaves it, before create_from_reader fills it
BareNode ==
    NodeStruct_init("/m", "/m", Absence, Absence, Absence, Absence, Absence, Absence,
                    Absence, Absence)

Structs ==
    { TimerCb, SubCb, NoSymbolCb, Pub, PubWithCallbacks, PubUnnamed, Sub,
      SubWithCallback, Subs, VarPass, Br, Buf, Br.frame_brs[1], Buf.frame_buffs[1],
      NodePaths[1], NodePaths[2], NodePaths[3], NodePaths[4], TfNodePath, Node,
      BareNode, CommunicationStruct_init(Pub, SubWithCallback, Node, Node),
      TransformCommunicationStruct_init(Br.frame_brs[1], Buf.frame_buffs[1]) }

\* the other variables while a Struct is under test
NonStructVars == <<pc, CoreVars, ReaderVars, TreeVars, PathVars>>

\* a call of struct.to_value()
ToValue ==
    /\ pc = "struct"
    /\ Len(to_values) < MaxToValueCalls
    /\ LET r == to_value(struct_obj) IN
         /\ to_values' = Append(to_values, [exc |-> r.exc, value |-> r.value])
         /\ struct_obj' = r.struct
    /\ UNCHANGED mutation
    /\ UNCHANGED NonStructVars

\* a call of a mutator of the Struct, which returned r
Mutate(op, r) ==
    /\ pc = "struct"
    /\ mutation = NoMutation
    /\ mutation' = [op |-> op, exc |-> r.exc, calls |-> Len(to_values),
                    before |-> struct_obj, after |-> r.struct]
    /\ struct_obj' = r.struct
    /\ UNCHANGED to_values
    /\ UNCHANGED NonStructVars

\* publisher.callbacks = callbacks
SetCallbacks ==
    /\ struct_obj.kind = "PublisherStruct"
    /\ \E callbacks \in { <<TimerCb>>, <<SubCb, TimerCb>> } :
         Mutate("callbacks", PublisherStruct_set_callbacks(struct_obj, callbacks))

\* subscription.callback = callback
SetCallback ==
    /\ struct_obj.kind = "SubscriptionStruct"
    /\ \E callback \in { SubCb, NoSymbolCb } :
         Mutate("callback", SubscriptionStruct_set_callback(struct_obj, callback))

\* subscriptions.add(subscription)
Add ==
    /\ struct_obj.kind = "SubscriptionsStruct"
    /\ \E subscription \in { Sub, SubWithCallback } :
         Mutate("add", SubscriptionsStruct_add(struct_obj, subscription))

\* node_path.child = child
SetChild ==
    /\ struct_obj.kind = "NodePathStruct"
    /\ \E child \in { <<SubCb>>, <<TimerCb, VarPass, SubCb>> } :
         Mutate("child", NodePathStruct_set_child(struct_obj, child))

\* node_path.message_context = message_context
SetMessageContext ==
    /\ struct_obj.kind = "NodePathStruct"
    /\ \E message_context \in { "callback_chain", "use_latest_message" } :
         Mutate("message_context",
                NodePathStruct_set_message_context(struct_obj, message_context))

\* node.node_name = node_name
SetNodeName ==
    /\ struct_obj.kind = "NodeStruct"
    /\ \E node_name \in { "/renamed" } :
         Mutate("node_name", NodeStruct_set_node_name(struct_obj, node_name))

StructInit ==
    /\ pc = "struct"
    /\ CoreIdle
    /\ ReaderIdle
    /\ TreeIdle
    /\ PathIdle
    /\ struct_obj \in Structs
    /\ to_values = <<>>
    /\ mutation = NoMutation

StructNext ==
    \/ ToValue
    \/ SetCallbacks
    \/ SetCallback
    \/ Add
    \/ SetChild
    \/ SetMessageContext
    \/ SetNodeName

StructSpec == StructInit /\ [][StructNext]_vars

\* a mutator changed the Struct after call i of to_value and before call j
MutatedBetween(i, j) ==
    /\ mutation.op # "none"
    /\ i <= mutation.calls
    /\ mutation.calls < j
    /\ mutation.after # mutation.before

\* C13: two calls of to_value on the same Struct with no mutation between
\* them give the same outcome: field-wise equal value objects (or the same
\* exception), for every kind of Struct.
C13_ToValueTwiceGivesEqualValues ==
    \A i \in DOMAIN to_values : \A j \in DOMAIN to_values :
        (i < j /\ ~MutatedBetween(i, j)) => to_values[i] = to_values[j]

\* a node with publishers, subscriptions, node paths and transforms was
\* converted twice, both times to a value
C13_Witness ==
    /\ struct_obj.kind = "NodeStruct"
    /\ mutation.op = "none"
    /\ Len(to_values) = 2
    /\ to_values[1].exc = "none"
    /\ to_values[2].exc = "none"
    /\ Len(to_values[1].value.subscriptions) = 2
    /\ Len(to_values[1].value.node_paths) = 4

\* C14: a mutator called after to_value fails and leaves the Struct as it
\* was, for every kind of Struct.
C14_MutationAfterToValueFails ==
    (mutation.op # "none" /\ mutation.calls >= 1) =>
        (mutation.exc # "none" /\ mutation.after = mutation.before)

\* the subscription Structs do refuse: SubscriptionStruct.callback and
\* SubscriptionsStruct.add fail after to_value and change nothing
SubscriptionMutationAfterToValueFails ==
    (mutation.op \in {"callback", "add"} /\ mutation.calls >= 1) =>
        (mutation.exc = "AssertionError" /\ mutation.after = mutation.before)

\* a publisher took new callbacks after it was converted
PublisherMutatedAfterToValue ==
    /\ mutation.op = "callbacks"
    /\ mutation.calls >= 1
    /\ mutation.exc = "none"
    /\ mutation.after # mutation.before

(***************************************************************************)
(* TransformTreeValue.create_from_transforms and is_in on the tree built   *)
(***************************************************************************)
\* _get_edge_tfs: the transforms whose frame_id is no transform's child
_get_edge_tfs(transforms) ==
    { tf_target \in transforms :
          ~\E tf \in transforms : tf_target.frame_id = tf.child_frame_id }

\* the orders in which an iteration over a set can give its elements
Orderings(set) ==
    { order \in [1..Cardinality(set) -> set] :
          \A i, j \in 1..Cardinality(set) : i # j => order[i] # order[j] }

\* the end of the run of equal keys that starts at i (itertools.groupby)
RECURSIVE RunEnd(_, _)
RunEnd(edge_trees, i) ==
    IF /\ i < Len(edge_trees)
       /\ edge_trees[i + 1].root_tf.child_frame_id = edge_trees[i].root_tf.child_frame_id
    THEN RunEnd(edge_trees, i + 1)
    ELSE i

\* for key, group in groupby(edge_trees, ...): parent_trees.append(...)
RECURSIVE GroupParents(_, _, _, _)
GroupParents(edge_trees, i, transforms, parent_trees) ==
    IF i > Len(edge_trees) THEN Ok(parent_trees)
    ELSE LET key == edge_trees[i].root_tf.child_frame_id
             j == RunEnd(edge_trees, i)
             child_trees == SubSeq(edge_trees, i, j)
             parent_tf == find_one({x \in Items(transforms) : x.frame_id = key},
                                   transforms)
         IN IF parent_tf.exc # "none" THEN Raise(parent_tf.exc)
            ELSE GroupParents(edge_trees, j + 1, transforms,
                              Append(parent_trees, Tree(parent_tf.value, child_trees)))

\* the transforms at the roots of the trees of a list
RootTfs(trees) == [k \in DOMAIN trees |-> trees[k].root_tf]

\* the passes of the loop once no transform of tfs is an edge: tfs stays as it
\* is and not empty, so no pass returns; each pass regroups the trees, and
\* whether it raises depends on their roots only.  The loop ends with the
\* exception of find_one, or its roots repeat and it runs forever ("NoReturn").
RECURSIVE StuckLoop(_, _, _)
StuckLoop(transforms, roots, seen) ==
    LET parent_trees == GroupParents([k \in DOMAIN roots |-> Tree(roots[k], <<>>)],
                                     1, transforms, <<>>)
    IN IF parent_trees.exc # "none" THEN Raise(parent_trees.exc)
       ELSE IF RootTfs(parent_trees.value) \in seen THEN Raise("NoReturn")
       ELSE StuckLoop(transforms, RootTfs(parent_trees.value),
                      seen \cup {RootTfs(parent_trees.value)})

\* the while(True) loop; edge_trees is None until the first pass sets it from
\* the set edge_tfs, iterated in the order first
RECURSIVE CreateLoop(_, _, _, _, _)
CreateLoop(transforms, tfs, edge_trees_is_none, edge_trees, first) ==
    LET edge_tfs == _get_edge_tfs(tfs)
        tfs_ == tfs \ edge_tfs
        trees == IF edge_trees_is_none
                 THEN [k \in DOMAIN first |-> Tree(first[k], <<>>)]
                 ELSE edge_trees
        parent_trees == GroupParents(trees, 1, transforms, <<>>)
    IN IF ~edge_trees_is_none /\ tfs_ = {}
       THEN IF Len(edge_trees) = 1 THEN Ok(edge_trees[1]) ELSE Raise("AssertionError")
       ELSE IF parent_trees.exc # "none" THEN Raise(parent_trees.exc)
       ELSE IF edge_tfs = {} /\ tfs # {}
       THEN StuckLoop(transforms, RootTfs(parent_trees.value),
                      {RootTfs(parent_trees.value)})
       ELSE CreateLoop(transforms, tfs_, FALSE, parent_trees.value, first)

\* TransformTreeValue.create_from_transforms; first is the order in which the
\* set of the edge transforms of the first pass is iterated
create_from_transforms(transforms, first) ==
    CreateLoop(transforms, Items(transforms), TRUE, <<>>, first)

\* the chain root -> A -> B -> C
Chain == << Tf("root", "A"), Tf("A", "B"), Tf("B", "C") >>

Frames == {"root", "A", "B", "C"}

\* the transforms of the chain, B -> A that closes a cycle of frames with
\* A -> B, and a second root root2 -> A
TransformUniverse == Items(Chain) \cup { Tf("B", "A"), Tf("root2", "A") }

MaxTransforms == 3

\* the transforms handed over: distinct transforms, in any order
TransformLists ==
    { ts \in UNION { [1..n -> TransformUniverse] : n \in 0..MaxTransforms } :
          \A i \in DOMAIN ts : \A j \in DOMAIN ts : i # j => ts[i] # ts[j] }

\* the transforms between two frames that a caller asks about
Lookups == { Tf(f, c) : f \in Frames, c \in Frames \ {"root"} }

NonTreeVars == <<CoreVars, ReaderVars, StructVars, PathVars>>

\* tree = TransformTreeValue.create_from_transforms(transforms)
CreateFromTransforms ==
    /\ pc = "tree_new"
    /\ pc' = "tree"
    /\ \E first \in Orderings(_get_edge_tfs(Items(tf_transforms))) :
         LET r == create_from_transforms(tf_transforms, first) IN
         tf_built' = [exc |-> r.exc, built |-> TRUE,
                      value |-> IF r.exc = "none" THEN r.value ELSE NoTree]
    /\ UNCHANGED <<tf_transforms, tf_query>>
    /\ UNCHANGED NonTreeVars

\* tree.is_in(lookup_transform, target_transform)
IsIn ==
    /\ pc = "tree"
    /\ tf_built.exc = "none"
    /\ \E lookup_transform \in Lookups : \E target_transform \in Lookups :
         tf_query' = [lookup |-> lookup_transform, target |-> target_transform,
                      ret |-> is_in(tf_built.value, lookup_transform, target_transform)]
    /\ UNCHANGED <<pc, tf_transforms, tf_built>>
    /\ UNCHANGED NonTreeVars

TreeInit ==
    /\ pc = "tree_new"
    /\ CoreIdle
    /\ ReaderIdle
    /\ StructIdle
    /\ PathIdle
    /\ tf_transforms \in TransformLists
    /\ tf_built = NotBuilt
    /\ tf_query = NoQuery

TreeNext ==
    \/ CreateFromTransforms
    \/ IsIn

TreeSpec == TreeInit /\ [][TreeNext]_vars

\* the tree was built from the whole chain
BuiltFromChain ==
    /\ tf_built.built
    /\ Items(tf_transforms) = Items(Chain)

\* C15: on the tree built from the chain root -> A -> B -> C,
\* is_in(lookup = root -> B, target = A -> B) is true and
\* is_in(lookup = root -> B, target = B -> C) is false.
C15_IsInOnChain ==
    (BuiltFromChain /\ tf_query.lookup = Tf("root", "B")) =>
        /\ tf_built.exc = "none"
        /\ tf_query.target = Tf("A", "B") => tf_query.ret
        /\ tf_query.target = Tf("B", "C") => ~tf_query.ret

\* the first of the two calls was made, on the tree of the chain
C15_Witness ==
    /\ BuiltFromChain
    /\ tf_transforms = Chain
    /\ tf_query.lookup = Tf("root", "B")
    /\ tf_query.target = Tf("A", "B")
    /\ tf_query.ret

\* the second call was made and returned False
IsInFalseOnChain ==
    /\ BuiltFromChain
    /\ tf_query.lookup = Tf("root", "B")
    /\ tf_query.target = Tf("B", "C")
    /\ ~tf_query.ret

\* on that tree, is_in holds of exactly the transforms of the chain between
\* the two frames of the lookup
IsInIsBetween ==
    (BuiltFromChain /\ tf_query # NoQuery) =>
        LET rank == [f \in Frames |->
                        CASE f = "root" -> 0 [] f = "A" -> 1 [] f = "B" -> 2 [] f = "C" -> 3]
            lo == IF rank[tf_query.lookup.frame_id] < rank[tf_query.lookup.child_frame_id]
                  THEN rank[tf_query.lookup.frame_id]
                  ELSE rank[tf_query.lookup.child_frame_id]
            hi == IF rank[tf_query.lookup.frame_id] < rank[tf_query.lookup.child_frame_id]
                  THEN rank[tf_query.lookup.child_frame_id]
                  ELSE rank[tf_query.lookup.frame_id]
        IN tf_query.ret <=>
              \E k \in DOMAIN Chain :
                  /\ tf_query.target = Chain[k]
                  /\ lo < k
                  /\ k <= hi

(***************************************************************************)
(* _to_path on the graph paths that the graph search found                 *)
(***************************************************************************)
\* the children alternate NodePath, Communication, ..., NodePath
Alternates(child) ==
    \A k \in DOMAIN child :
        IF k % 2 = 1 THEN child[k].kind \in {"node_path", "dummy_node_path"}
        ELSE child[k].kind = "comm"

\* C16: for every graph path of n >= 1 edges, _to_path returns exactly 2n+1
\* children that start and end with a NodePath and alternate NodePath,
\* Communication, NodePath, ...
C16_ToPathAlternates ==
    \A k \in DOMAIN graph_paths :
        Len(graph_paths[k]) >= 1 =>
            LET r == _to_path(graph_paths[k]) IN
            /\ r.exc = "none"
            /\ Len(r.value) = 2 * Len(graph_paths[k]) + 1
            /\ Alternates(r.value)

\* a table lookup that _to_path makes for this graph path finds no entry:
\* the communication of an edge, or the node path between two edges
LookupNotFound(edges) ==
    \/ \E k \in DOMAIN edges :
           <<edges[k].node_from, edges[k].node_to, edges[k].label>> \notin DOMAIN comm_dict
    \/ \E k \in 1..(Len(edges) - 1) :
           <<edges[k].label, edges[k + 1].label, edges[k].node_to>> \notin DOMAIN node_path_dict

\* C17: when a lookup of one graph path finds nothing, search leaves out that
\* path only: it returns the resolved paths of the other graph paths and does
\* not raise.
C17_NotFoundLeavesOnePathOut ==
    (SearchEnded /\ \E k \in DOMAIN graph_paths : LookupNotFound(graph_paths[k])) =>
        /\ pc = "done"
        /\ Len(paths) = Cardinality({ k \in DOMAIN graph_paths :
                                          ~LookupNotFound(graph_paths[k]) })

(***************************************************************************)
(* PathsStruct: the end-to-end paths declared in the architecture file     *)
(***************************************************************************)
MaxPaths == 3

\* the attributes NodesStruct defines (find_node_path is commented out)
NodesStructAttrs ==
    {"to_value", "insert", "add", "callback_groups", "get_node", "create_from_reader"}

\* the attributes NodePathStruct and CommunicationStruct define
NodePathStructAttrs ==
    {"publisher", "node_input", "node_output", "tf_frame_broadcaster", "subscription",
     "tf_frame_buffer", "to_value", "node_name", "message_context", "child"}

CommunicationStructAttrs ==
    {"callback_sub", "callbacks_pub", "node_pub", "node_sub", "publisher",
     "subscription", "to_value"}

\* the names path.py binds at module level (imports and classes)
PathModuleNames ==
    {"getLogger", "List", "Optional", "Iterable", "Iterator", "Tuple", "NodesStruct",
     "NodePathStruct", "CommunicationsStruct", "ArchitectureReader", "Error", "logger",
     "PathsStruct", "PathStruct"}

\* the exceptions that derive from caret_analyze.exceptions.Error
Errors == {"ItemNotFoundError", "MultipleItemFoundError", "InvalidArgumentError"}

NodePathValue(node_name, subscribe_topic_name, publish_topic_name) ==
    [node_name |-> node_name, subscribe_topic_name |-> subscribe_topic_name,
     publish_topic_name |-> publish_topic_name]

PathValue(path_name, node_path_values) ==
    [path_name |-> path_name, node_path_values |-> node_path_values]

\* the path specs a reader may declare
PathValues ==
    { PathValue("empty", <<>>),
      PathValue("one_node", << NodePathValue("Producer", None, "/chatter") >>),
      PathValue("two_nodes", << NodePathValue("Producer", None, "/chatter"),
                                NodePathValue("Consumer", "/chatter", None) >>),
      PathValue("no_topic", << NodePathValue("Producer", None, "/chatter"),
                               NodePathValue("Consumer", None, None) >>) }

PathValueLists == UNION { [1..n -> PathValues] : n \in 0..MaxPaths }

\* CommunicationsStruct.find_communication on the communications loaded
find_communication(topic_name, publish_node_name, subscribe_node_name) ==
    IF /\ communications # <<>>
       /\ ~({"publish_node_name", "subscribe_node_name", "topic_name"}
               \subseteq CommunicationStructAttrs)
    THEN Raise("AttributeError")
    ELSE find_one({ comm \in Items(communications) :
                       /\ comm.node_pub = publish_node_name
                       /\ comm.node_sub = subscribe_node_name
                       /\ comm.output.topic_name = topic_name },
                  communications)

\* PathsStruct._to_node_path_struct:
\* tuple(nodes_loaded.find_node_path(_) for _ in node_path_values)
_to_node_path_struct(node_path_values) ==
    IF node_path_values = <<>> THEN Ok(<<>>)
    ELSE IF "find_node_path" \notin NodesStructAttrs THEN Raise("AttributeError")
    ELSE Ok(node_path_values)

\* the loop over zip(node_paths_info[:-1], node_paths_info[1:])
RECURSIVE PathStructChild(_, _, _)
PathStructChild(node_paths_info, k, child) ==
    IF k >= Len(node_paths_info) THEN Ok(child)
    ELSE LET pub_node_path == node_paths_info[k]
             sub_node_path == node_paths_info[k + 1]
         IN IF "subscribe_topic_name" \notin NodePathStructAttrs THEN Raise("AttributeError")
            ELSE IF sub_node_path.subscribe_topic_name = None
            THEN (IF "InvalidArgumentError" \in PathModuleNames
                  THEN Raise("InvalidArgumentError") ELSE Raise("NameError"))
            ELSE LET comm_info == find_communication(sub_node_path.subscribe_topic_name,
                                                     pub_node_path.node_name,
                                                     sub_node_path.node_name)
                 IN IF comm_info.exc # "none" THEN Raise(comm_info.exc)
                    ELSE PathStructChild(node_paths_info, k + 1,
                                         child \o <<comm_info.value, sub_node_path>>)

\* PathStruct.__init__
PathStruct_init(path_info) ==
    LET node_paths_info == _to_node_path_struct(path_info.node_path_values) IN
    IF node_paths_info.exc # "none" THEN Raise(node_paths_info.exc)
    ELSE IF node_paths_info.value = <<>> THEN Raise("IndexError")
    ELSE LET child == PathStructChild(node_paths_info.value, 1,
                                      <<node_paths_info.value[1]>>)
         IN IF child.exc # "none" THEN Raise(child.exc) ELSE Ok([kind |-> "PathStruct"])

\* the handler `except Error as e`: its f-string reads path.path_name, where
\* path is the PathStruct of an earlier pass, or unbound
ExceptError(loaded) ==
    IF loaded.data = <<>> THEN "UnboundLocalError" ELSE "AttributeError"

\* for path_value in reader.get_paths(): try: ... except Error as e: ...
RECURSIVE PathsLoop(_, _, _)
PathsLoop(path_values_, k, loaded) ==
    IF k > Len(path_values_) THEN loaded
    ELSE LET r == PathStruct_init(path_values_[k]) IN
         IF r.exc = "none"
         THEN PathsLoop(path_values_, k + 1, [loaded EXCEPT !.data = Append(@, r.value)])
         ELSE IF r.exc \in Errors THEN [loaded EXCEPT !.exc = ExceptError(loaded)]
         ELSE [loaded EXCEPT !.exc = r.exc]

NonPathVars == <<CoreVars, ReaderVars, StructVars, TreeVars>>

\* PathsStruct.__init__
PathsStruct_init ==
    /\ pc = "paths_new"
    /\ pc' = "paths"
    /\ paths_loaded' = PathsLoop(path_values, 1, NotLoaded)
    /\ UNCHANGED path_values
    /\ UNCHANGED NonPathVars

PathsInit ==
    /\ pc = "paths_new"
    /\ CoreIdle
    /\ ReaderIdle
    /\ StructIdle
    /\ TreeIdle
    /\ path_values \in PathValueLists
    /\ paths_loaded = NotLoaded

PathsNext == PathsStruct_init

PathsSpec == PathsInit /\ [][PathsNext]_vars

\* C19: when a path spec cannot be resolved, the constructor does not raise;
\* it logs a warning for that spec and leaves only that one out, also when
\* the failing spec is the first.
C19_FailingPathSpecIsOmitted ==
    (pc = "paths" /\ path_values # <<>>) =>
        /\ paths_loaded.exc = "none"
        /\ Len(paths_loaded.data) + Len(paths_loaded.warned) = Len(path_values)

\* without path specs the constructor returns, with no path and no warning
NoPathSpecsLoadsNothing ==
    (pc = "paths" /\ path_values = <<>>) => paths_loaded = NotLoaded

(***************************************************************************)
(* The topic '/tf'                                                         *)
(***************************************************************************)
\* an ordinary Publisher or Subscription on '/tf'
OrdinaryOnTf(ep) == ep.kind \in {"pub", "sub"} /\ ep.topic_name = "/tf"

\* C20: no node input, node output, NodePath endpoint or Communication
\* endpoint is an ordinary Publisher or Subscription on '/tf'.
C20_TfIsNeverOrdinary ==
    /\ \A ep \in AllInputs \cup AllOutputs : ~OrdinaryOnTf(ep)
    /\ \A k \in DOMAIN node_paths :
        ~OrdinaryOnTf(node_paths[k].node_input) /\ ~OrdinaryOnTf(node_paths[k].node_output)
    /\ \A k \in DOMAIN communications :
        ~OrdinaryOnTf(communications[k].input) /\ ~OrdinaryOnTf(communications[k].output)

\* the publisher side holds: no node output and no Communication endpoint is
\* an ordinary Publisher or Subscription on '/tf'
TfIsNeverAnOrdinaryOutput ==
    /\ \A ep \in AllOutputs : ~OrdinaryOnTf(ep)
    /\ \A k \in DOMAIN node_paths : ~OrdinaryOnTf(node_paths[k].node_output)
    /\ \A k \in DOMAIN communications :
        ~OrdinaryOnTf(communications[k].input) /\ ~OrdinaryOnTf(communications[k].output)

\* a node path was created whose input is an ordinary Subscription on '/tf'
NodePathFromTfSubscription ==
    \E k \in DOMAIN node_paths :
        node_paths[k].node_input.kind = "sub" /\ node_paths[k].node_input.topic_name = "/tf"

(***************************************************************************)
(* Properties of the callback-graph search of one node                     *)
(***************************************************************************)
\* graph_paths of CallbackPathSearcher.search(start_callback, end_callback)
CallbackGraphPaths(node, start_callback, end_callback) ==
    LET searcher == CallbackPathSearcher_init(node) IN
    IF searcher.exc # "none" \/ ~searcher.has_graph THEN <<>>
    ELSE search_paths(searcher.graph, _to_node_point_name(start_callback, "read"),
                      _to_node_point_name(end_callback, "write"), 0)

\* the node paths of the table whose child is the chain
AttachedTo(chain) ==
    { j \in DOMAIN node_paths :
        node_paths[j].child # None /\ node_paths[j].child = chain }

CallbackSearchEnded == pc \in {"chained", "returned"}

\* C21: after the callback-graph search of a node, every chain found by
\* CallbackPathSearcher.search is attached to one NodePath per output of its
\* end callback, and to exactly one NodePath, whose output is None, when the
\* end callback has no output (None or empty).
C21_ChainIsAttachedOncePerOutput ==
    CallbackSearchEnded =>
        \A s \in Items(nodes[cur].callbacks), e \in Items(nodes[cur].callbacks) :
            LET gps == CallbackGraphPaths(nodes[cur], s, e) IN
            \A k \in DOMAIN gps :
                LET chain == ToPathChild(nodes[cur], gps[k], 1, <<>>).value
                    out_values == CallbackStruct_node_outputs
                IN IF out_values.is_none \/ out_values.data = <<>>
                   THEN /\ Cardinality(AttachedTo(chain)) = 1
                        /\ \A j \in AttachedTo(chain) : node_paths[j].node_output = NoneEp
                   ELSE Cardinality(AttachedTo(chain)) = Len(out_values.data)

\* (checked with C21) the search never attaches a chain: node_outputs of a
\* callback is None, `None or []` is a list, and a list never equals ()
NoChainIsEverAttached ==
    \A j \in DOMAIN node_paths : node_paths[j].child = None

\* (checked with C21) the search of a node that has a callback ends
SearchOfCallbacksEnds ==
    CallbackSearchEnded /\ Len(nodes[cur].callbacks) >= 1

\* the endpoint values a chain of the node can be given: None, or an input or
\* output of the node
InValues(node) == {NoneEp} \cup Items(node_inputs(node))

OutValues(node) == {NoneEp} \cup Items(node_outputs(node))

\* C22: a call of _to_path for a chain of the node with an endpoint value
\* (its resolution may fail with 'not found' or 'multiple candidates')
\* completes without raising, so the remaining chains are processed.
C22_ToPathCompletesWhenResolutionFails ==
    pc = "populated" =>
        \A s \in Items(nodes[cur].callbacks), e \in Items(nodes[cur].callbacks) :
            LET gps == CallbackGraphPaths(nodes[cur], s, e) IN
            \A k \in DOMAIN gps :
                \A i \in InValues(nodes[cur]), o \in OutValues(nodes[cur]) :
                    (i # NoneEp \/ o # NoneEp) =>
                        CallbackPathSearcher_to_path(nodes[cur], node_paths, gps[k],
                                                     i, o).exc = "none"

\* (checked with C22) _to_path raises for every chain and every endpoint values
ToPathAlwaysRaises ==
    pc = "populated" =>
        \A s \in Items(nodes[cur].callbacks), e \in Items(nodes[cur].callbacks) :
            LET gps == CallbackGraphPaths(nodes[cur], s, e) IN
            \A k \in DOMAIN gps :
                \A i \in InValues(nodes[cur]), o \in OutValues(nodes[cur]) :
                    CallbackPathSearcher_to_path(nodes[cur], node_paths, gps[k],
                                                 i, o).exc \in {"AttributeError", "TypeError"}

\* C23: the path table is filled before the callback-graph search, so for
\* every chain found the lookup _to_path makes in the table (with the
\* resolved input or None and the resolved output or None) finds an entry.
C23_TableLookupsSucceed ==
    pc = "populated" =>
        \A s \in Items(nodes[cur].callbacks), e \in Items(nodes[cur].callbacks) :
            LET gps == CallbackGraphPaths(nodes[cur], s, e) IN
            \A k \in DOMAIN gps :
                NodePathsStruct_get_call(node_paths, <<NoneEp, NoneEp>>).exc = "none"

\* (checked with C23) the table has no entry without input and without output
TableHasNoEntryWithoutEndpoints ==
    \A k \in DOMAIN node_paths :
        ~(node_paths[k].node_input = NoneEp /\ node_paths[k].node_output = NoneEp)

\* (checked with C23) the table is filled when the search starts
TableIsFilledBeforeSearch ==
    pc \in {"populated", "chained", "returned"} =>
        \A i \in Items(node_inputs(nodes[cur])), o \in Items(node_outputs(nodes[cur])) :
            NodePathsStruct_get(node_paths, nodes[cur].node_name, i, o).exc = "none"

\* C26: the callback graph of a node (with its collection of variable
\* passings set) has exactly one edge '<name>@read' ->
\* '<name>@write' per callback and one edge '<writer>@write' -> '<reader>@read'
\* per variable passing, and CallbackPathSearch runs the search from
\* read(start) to write(end) for every ordered pair of callbacks.
C26_CallbackGraphEdges ==
    (pc = "populated" /\ ~nodes[cur].variable_passings.is_none) =>
        LET node == nodes[cur]
            searcher == CallbackPathSearcher_init(node)
            var_passes == IF node.variable_passings.is_none THEN <<>>
                          ELSE node.variable_passings.data
            expected ==
                { << _to_node_point_name(cb, "read"), _to_node_point_name(cb, "write") >> :
                    cb \in Items(node.callbacks) }
                \cup
                { << _to_node_point_name(vp.write, "write"),
                     _to_node_point_name(vp.read, "read") >> : vp \in Items(var_passes) }
            built == { << searcher.graph[i].node_from, searcher.graph[i].node_to >> :
                         i \in DOMAIN searcher.graph }
        IN /\ searcher.exc = "none"
           /\ built = expected
           /\ Len(searcher.graph) = Cardinality(expected)
           /\ CallbackPathSearch(node, node_paths).exc = "none"

\* (checked with C26) the callback half: one edge read -> write per callback,
\* and in a node whose variable passings are an empty collection nothing else
CallbackEdgesAreBuilt ==
    pc = "populated" =>
        LET node == nodes[cur]
            searcher == CallbackPathSearcher_init(node)
            built == { << searcher.graph[i].node_from, searcher.graph[i].node_to >> :
                         i \in DOMAIN searcher.graph }
        IN (~node.variable_passings.is_none) =>
               /\ built = { << _to_node_point_name(cb, "read"),
                               _to_node_point_name(cb, "write") >> :
                              cb \in Items(node.callbacks) }
               /\ Len(searcher.graph) = Len(node.callbacks)

\* (checked with C26) a node with a variable passing: the constructor of the
\* searcher raises AttributeError
VariablePassingRaises ==
    (pc = "populated" /\ ~nodes[cur].variable_passings.is_none
        /\ Len(nodes[cur].variable_passings.data) >= 1) =>
            CallbackPathSearcher_init(nodes[cur]).exc = "AttributeError"

NodeWithVariablePassingPopulated ==
    /\ pc = "populated"
    /\ ~nodes[cur].variable_passings.is_none
    /\ Len(nodes[cur].variable_passings.data) >= 1

\* the paths from read(start) to write(end) through the callbacks and the
\* variable passings of the node: the graph paths _to_path is written for
ChainPaths(node, start_callback, end_callback) ==
    LET var_passes == IF node.variable_passings.is_none THEN <<>>
                      ELSE node.variable_passings.data
        g == VariablePassingEdges(var_passes, 1, CallbackEdges(node.callbacks, 1, <<>>))
    IN search_paths(g, _to_node_point_name(start_callback, "read"),
                    _to_node_point_name(end_callback, "write"), 0)

\* callback, variable passing, callback, ...; each variable passing is written
\* by the callback before it and read by the callback after it
WellFormedChain(child, start_callback, end_callback) ==
    /\ Len(child) % 2 = 1
    /\ child[1].kind = "callback" /\ child[1].callback_name = start_callback
    /\ child[Len(child)].kind = "callback"
    /\ child[Len(child)].callback_name = end_callback
    /\ \A k \in DOMAIN child :
          IF k % 2 = 1 THEN child[k].kind = "callback"
          ELSE /\ child[k].kind = "variable_passing"
               /\ child[k].callback_name_write = child[k - 1].callback_name
               /\ child[k].callback_name_read = child[k + 1].callback_name

\* C27: the chain _to_path builds and attaches for a path from read(start) to
\* write(end) has odd length, starts with the start callback, ends with the
\* end callback and alternates callback, variable passing, callback; each
\* variable passing has the callback before it as writer and the callback
\* after it as reader.
C27_AttachedChainAlternates ==
    pc = "populated" =>
        \A s \in Items(nodes[cur].callbacks), e \in Items(nodes[cur].callbacks) :
            LET gps == ChainPaths(nodes[cur], s, e) IN
            \A k \in DOMAIN gps :
                LET child == ToPathChild(nodes[cur], gps[k], 1, <<>>) IN
                /\ child.exc = "none"
                /\ WellFormedChain(child.value, s, e)

\* (checked with C27) the chains without variable passing are built, and they
\* are the single callback
SingleCallbackChainIsBuilt ==
    pc = "populated" =>
        \A s \in Items(nodes[cur].callbacks), e \in Items(nodes[cur].callbacks) :
            LET gps == ChainPaths(nodes[cur], s, e) IN
            \A k \in DOMAIN gps :
                LET child == ToPathChild(nodes[cur], gps[k], 1, <<>>) IN
                IF Len(gps[k]) = 1
                THEN child.exc = "none" /\ WellFormedChain(child.value, s, e) /\ s = e
                ELSE child.exc = "AttributeError"

(***************************************************************************)
(* Properties of the duplicate-name validation of TopicIgnoredReader       *)
(***************************************************************************)
\* the same node name at two positions of the list
HasDuplicateName(ns) ==
    \E i, j \in DOMAIN ns : i < j /\ ns[i].node_name = ns[j].node_name

\* C25: whenever the node sequence of the reader holds the same node name
\* at two positions, adjacent or not, get_nodes logs the warning of the
\* duplicate-name validation.
C25_DuplicateNamesAreWarned ==
    (result.method = "get_nodes" /\ HasDuplicateName(reader_nodes)) => result.warned

\* (checked with C25) the warning is logged exactly when two neighbours of the
\* list have the same name
AdjacentDuplicatesAreWarned ==
    result.method = "get_nodes" =>
        (result.warned <=>
            \E i \in 1..(Len(reader_nodes) - 1) :
                reader_nodes[i].node_name = reader_nodes[i + 1].node_name)

\* (checked with C25) get_nodes returned for a list with the same name at two
\* positions that are not neighbours, without warning
SeparatedDuplicateNotWarned ==
    /\ result.method = "get_nodes"
    /\ HasDuplicateName(reader_nodes)
    /\ ~result.warned

(***************************************************************************)
(* Properties of the filters of NodePathSearcher                           *)
(***************************************************************************)
\* the communication is rejected by communication_filter or by node_filter
RejectedByFilter(c) ==
    \/ /\ ~filters.communication_filter.is_none
       /\ c.topic_name \notin filters.communication_filter.accepts
    \/ /\ ~filters.node_filter.is_none
       /\ \/ c.output_node_name \notin filters.node_filter.accepts
          \/ c.input_node_name \notin filters.node_filter.accepts

\* the edges of the graph that run from the publishing node of c to its
\* subscribing node with the topic of c as label
EdgesOf(c) ==
    { i \in DOMAIN graph :
        /\ graph[i].node_from = c.output_node_name
        /\ graph[i].node_to = c.input_node_name
        /\ graph[i].label = c.topic_name }

Traverses(graph_path, c) ==
    \E k \in DOMAIN graph_path :
        /\ graph_path[k].node_from = c.output_node_name
        /\ graph_path[k].node_to = c.input_node_name
        /\ graph_path[k].label = c.topic_name

\* a rejected communication adds no edge and no table entry, and no path of
\* the graph search traverses it
RejectedAddsNothing ==
    \A i \in DOMAIN comms :
        RejectedByFilter(comms[i]) =>
            /\ EdgesOf(comms[i]) = {}
            /\ CommKey(comms[i]) \notin DOMAIN comm_dict
            /\ \A k \in DOMAIN graph_paths : ~Traverses(graph_paths[k], comms[i])

\* with both filters None every communication that is the first of its triple
\* adds exactly one edge
UnfilteredAddsOneEdge ==
    filters = NoFilters =>
        \A i \in DOMAIN comms :
            (\A j \in 1..(i - 1) : CommKey(comms[j]) # CommKey(comms[i])) =>
                Cardinality(EdgesOf(comms[i])) = 1

\* C24: a communication rejected by communication_filter or by node_filter
\* adds no edge to the node graph and no entry to the communication table,
\* so no path of the search traverses it; with both filters None every
\* non-duplicate communication adds exactly one edge.
C24_FiltersDecideTheEdges ==
    (Constructed /\ ~HasDuplicateNodePath(node_paths_in)) =>
        RejectedAddsNothing /\ UnfilteredAddsOneEdge

\* (checked with C24) the filter half, in every state
RejectedCommunicationAddsNothing == Constructed => RejectedAddsNothing

\* (checked with C24) the other half, where the constructor returned
UnfilteredAddsOneEdgeUnlessRaised ==
    (Constructed /\ ~ConstructorRaised) => UnfilteredAddsOneEdge

\* (checked with C24) a communication was rejected and another accepted
SomeRejectedSomeAccepted ==
    /\ Constructed /\ ~ConstructorRaised
    /\ \E i \in DOMAIN comms : RejectedByFilter(comms[i])
    /\ \E i \in DOMAIN comms : ~RejectedByFilter(comms[i])
    /\ Len(graph_paths) >= 1

\* (checked with C24) the constructor met a duplicate before a communication
\* that is the first of its triple
DuplicateBeforeFirstOfTriple ==
    /\ ConstructorRaised
    /\ filters = NoFilters
    /\ ~HasDuplicateNodePath(node_paths_in)
    /\ Len(comms) = 3
    /\ CommKey(comms[1]) = CommKey(comms[2])
    /\ CommKey(comms[3]) # CommKey(comms[1])

(***************************************************************************)
(* Properties of TransformTreeValue.create_from_transforms                 *)
(***************************************************************************)
\* the transforms under which the loop groups tf: those of its child frame
ParentsOf(tf, set) == { p \in set : p.frame_id = tf.child_frame_id }

\* tf and the transforms above it, n steps up at most
RECURSIVE Upwards(_, _, _)
Upwards(tf, set, n) ==
    IF n = 0 THEN {tf}
    ELSE {tf} \cup UNION { Upwards(p, set, n - 1) : p \in ParentsOf(tf, set) }

\* the transforms form one tree: one of them has no parent, each other has
\* exactly one, and following the parents leads from each to the first
FormsOneTree(set) ==
    \E top \in set :
        /\ ParentsOf(top, set) = {}
        /\ \A tf \in set \ {top} :
              /\ Cardinality(ParentsOf(tf, set)) = 1
              /\ top \in Upwards(tf, set, Cardinality(set))

\* how often the transform is in the tree
RECURSIVE CountIn(_, _)
CountIn(tree, tf) ==
    LET below == [k \in DOMAIN tree.childs |-> CountIn(tree.childs[k], tf)]
        Sum[k \in 0..Len(below)] == IF k = 0 THEN 0 ELSE Sum[k - 1] + below[k]
    IN (IF tree.root_tf = tf THEN 1 ELSE 0) + Sum[Len(below)]

\* C28: create_from_transforms terminates for every finite set of transforms
\* (the empty set, a cycle of frames, several roots) and, when the transforms
\* form one tree, returns a single rooted tree that contains every transform
\* exactly once.
C28_CreateFromTransformsTerminates ==
    tf_built.built =>
        /\ tf_built.exc # "NoReturn"
        /\ FormsOneTree(Items(tf_transforms)) =>
              /\ tf_built.exc = "none"
              /\ \A tf \in TransformUniverse :
                    CountIn(tf_built.value, tf) = IF tf \in Items(tf_transforms) THEN 1 ELSE 0

\* (checked with C28) whenever a tree is returned, it holds every transform
\* exactly once
ReturnedTreeHoldsEachTransformOnce ==
    (tf_built.built /\ tf_built.exc = "none") =>
        \A tf \in TransformUniverse :
            CountIn(tf_built.value, tf) = IF tf \in Items(tf_transforms) THEN 1 ELSE 0

\* (checked with C28) the call ends for the empty set, with AssertionError
EmptySetRaises ==
    (tf_built.built /\ tf_transforms = <<>>) => tf_built.exc = "AssertionError"

\* (checked with C28) the call never returns for the cycle A -> B -> A
CycleNeverReturns ==
    /\ tf_built.built
    /\ Items(tf_transforms) = { Tf("A", "B"), Tf("B", "A") }
    /\ tf_built.exc = "NoReturn"

\* (checked with C28) the tree of a single transform is not returned
SingleTransformRaises ==
    /\ tf_built.built
    /\ tf_transforms = << Tf("root", "A") >>
    /\ tf_built.exc = "ItemNotFoundError"

\* (checked with C28) the two roots root -> A and root2 -> A under A -> B
TwoRootsAreBuilt ==
    /\ tf_built.built
    /\ Items(tf_transforms) = { Tf("root", "A"), Tf("root2", "A"), Tf("A", "B") }
    /\ tf_built.exc = "none"
    /\ Len(tf_built.value.childs) = 2

(***************************************************************************)
(* Properties of MessageContexts.create_from_reader                        *)
(***************************************************************************)
\* the node declares the output the descriptor names
DeclaresOutput(node, context_dict) ==
    IF context_dict.publisher_topic_name = "/tf"
    THEN \E br \in Items(FrameBroadcasters(node)) : br.transform = context_dict.broadcast
    ELSE \E pub \in Items(Publishers(node)) :
             pub.topic_name = context_dict.publisher_topic_name

\* the node declares the input the descriptor names
DeclaresInput(node, context_dict) ==
    IF context_dict.subscription_topic_name = "/tf"
    THEN \E buf \in Items(FrameBuffers(node)) : buf.transform = context_dict.lookup
    ELSE \E sub \in Items(Subscriptions(node)) :
             sub.topic_name = context_dict.subscription_topic_name

\* the node path is the one the descriptor names
Names(context_dict, node_path) ==
    /\ node_path.node_output.topic_name = context_dict.publisher_topic_name
    /\ node_path.node_input.topic_name = context_dict.subscription_topic_name
    /\ context_dict.publisher_topic_name = "/tf" =>
          node_path.node_output.transform = context_dict.broadcast
    /\ context_dict.subscription_topic_name = "/tf" =>
          node_path.node_input.transform = context_dict.lookup

\* the descriptor cannot be applied: UNDEFINED, an endpoint the node does not
\* declare, or no node path of the table for its endpoints
CannotBeApplied(node, data, context_dict) ==
    \/ context_dict.context_type = UNDEFINED_STR
    \/ ~DeclaresOutput(node, context_dict)
    \/ ~DeclaresInput(node, context_dict)
    \/ ~\E j \in DOMAIN data : Names(context_dict, data[j])

\* the message-context step of the node has run
MessageContextsDone ==
    /\ cur # 0
    /\ \/ pc = "returned"
       \/ /\ pc = "raised"
          /\ CallbackPathSearch(nodes[cur], Populate(nodes[cur])).exc = "none"

\* C29: when a message-context descriptor of the node cannot be applied, it is
\* skipped: no exception leaves MessageContexts.create_from_reader, no node
\* path gets a message context from it, and the other descriptors of the node
\* are applied.
C29_InapplicableContextIsSkipped ==
    LET node == nodes[cur]
        context_dicts == node.message_contexts
    IN (/\ MessageContextsDone
        /\ \E k \in DOMAIN context_dicts :
              CannotBeApplied(node, node_paths, context_dicts[k])) =>
           /\ pc = "returned"
           /\ \A j \in DOMAIN node_paths :
                 node_paths[j].message_context # None =>
                     \E k \in DOMAIN context_dicts :
                         /\ ~CannotBeApplied(node, node_paths, context_dicts[k])
                         /\ Names(context_dicts[k], node_paths[j])
                         /\ node_paths[j].message_context = context_dicts[k].context_type
           /\ \A k \in DOMAIN context_dicts :
                 ~CannotBeApplied(node, node_paths, context_dicts[k]) =>
                     \E j \in DOMAIN node_paths :
                         /\ Names(context_dicts[k], node_paths[j])
                         /\ node_paths[j].message_context # None

\* (checked with C29) the descriptors that are UNDEFINED or name a publisher
\* the node does not declare are skipped and the others applied
UndefinedOrUnknownPublisherIsSkipped ==
    LET node == nodes[cur]
        context_dicts == node.message_contexts
    IN (/\ MessageContextsDone
        /\ \A k \in DOMAIN context_dicts : DeclaresInput(node, context_dicts[k])
        /\ \A k \in DOMAIN context_dicts :
              context_dicts[k].publisher_topic_name = "/tf" =>
                  DeclaresOutput(node, context_dicts[k])) =>
           /\ pc = "returned"
           /\ \A k \in DOMAIN context_dicts :
                 ~CannotBeApplied(node, node_paths, context_dicts[k]) =>
                     \E j \in DOMAIN node_paths :
                         /\ Names(context_dicts[k], node_paths[j])
                         /\ node_paths[j].message_context # None

\* (checked with C29) a descriptor with an undeclared publisher was skipped
\* and the descriptor after it applied
SkippedAndApplied ==
    /\ pc = "returned"
    /\ \E k \in DOMAIN nodes[cur].message_contexts :
          ~DeclaresOutput(nodes[cur], nodes[cur].message_contexts[k])
    /\ \E j \in DOMAIN node_paths : node_paths[j].message_context # None

\* (checked with C29) a descriptor with an undeclared subscription topic:
\* AttributeError leaves create_from_reader
UndeclaredSubscriptionRaises ==
    /\ MessageContextsDone
    /\ \E k \in DOMAIN nodes[cur].message_contexts :
          /\ nodes[cur].message_contexts[k].subscription_topic_name # "/tf"
          /\ ~DeclaresInput(nodes[cur], nodes[cur].message_contexts[k])
    /\ pc = "raised"
    /\ raised = "AttributeError"

\* (checked with C29) a descriptor with an undeclared frame pair:
\* NotImplementedError leaves create_from_reader
UndeclaredFramesRaise ==
    /\ MessageContextsDone
    /\ \E k \in DOMAIN nodes[cur].message_contexts :
          /\ nodes[cur].message_contexts[k].publisher_topic_name = "/tf"
          /\ ~DeclaresOutput(nodes[cur], nodes[cur].message_contexts[k])
    /\ pc = "raised"
    /\ raised = "NotImplementedError"

(***************************************************************************)
(* Properties of is_pair                                                   *)
(***************************************************************************)
\* CommunicationsStruct.__init__ has paired the inputs and outputs of the nodes
PairingDone == cur = 0 /\ pc \in {"comms_built", "raised"}

\* C30: for every node input x (subscription or frame buffer) and node output
\* y (publisher or frame broadcaster), y.is_pair(x) equals x.is_pair(y); a
\* frame broadcaster pairs with a frame buffer exactly when the transform
\* tree has the broadcast transform on the lookup of the buffer.
C30_IsPairIsSymmetric ==
    PairingDone =>
        \A x \in AllInputs, y \in AllOutputs :
            /\ output_is_pair(y, x) = is_pair(x, y)
            /\ (x.kind = "buf" /\ y.kind = "br") =>
                  (output_is_pair(y, x) <=> is_in(tf_tree, x.transform, y.transform))

\* (checked with C30) publishers and subscriptions agree, and an endpoint of
\* the topic kind never pairs with one of the transform kind
TopicEndpointsAgree ==
    \A x \in AllInputs, y \in AllOutputs :
        (x.kind = "sub" \/ y.kind = "pub") => output_is_pair(y, x) = is_pair(x, y)

\* (checked with C30) a frame broadcaster pairs with no node input at all
BroadcasterNeverPairs ==
    \A x \in AllInputs, y \in AllOutputs :
        y.kind = "br" => ~output_is_pair(y, x)

\* (checked with C30) a buffer that pairs with a broadcaster
BufferPairsWithBroadcaster ==
    PairingDone /\ \E x \in AllInputs, y \in AllOutputs :
        x.kind = "buf" /\ y.kind = "br" /\ is_pair(x, y) /\ ~output_is_pair(y, x)

====
